---- MODULE Spec2Model ----
(***************************************************************************)
(* Model of idc_index.index.IDCClient: the selection filter, the manifest  *)
(* reconciler, the directory-template resolver, the download planner, the  *)
(* s5cmd runner with its progress tracking, the client() singleton,         *)
(* fetch_index, the data frames the operations bind, whole download calls   *)
(* (plan, then run), and _get_dir_sum_file_size on a changing directory.    *)
(*                                                                          *)
(* Strings are modelled as sequences of atoms (an atom stands for one or    *)
(* more characters that the modelled inputs never split); data frames are   *)
(* modelled as sets (selection) or sequences (manifest join) of records.    *)
(***************************************************************************)
EXTENDS Integers, Sequences, FiniteSets, TLC

VARIABLES
    \* ---- selection filter (_safe_filter_by_selection) ----
    df_index,       \* the data frame handed to the filter: a set of rows
    sel,            \* the six filter arguments of the last call
    outcome,        \* "idle" | "df" | "None" | "TypeError" | "ValueError"
    result_df,      \* the rows returned by the last call
    err,            \* [key, values] named by the raised error
    \* ---- directory template (_generate_sql_concat_for_building_directory) ----
    dirTemplate,    \* the template handed to the resolver: a string
    t_outcome,      \* "idle" | "ok" | "ValueError"
    concat_command, \* the CONCAT expression returned
    residue,        \* what is left of the template after the validation
    \* ---- manifest reconciler (_validate_update_manifest_and_get_download_size) ----
    index,                    \* self.index: the series of the current release
    previous_versions_index,  \* self.previous_versions_index
    manifest_df,              \* the copy commands read from the manifest file
    m_args,                   \* validate_manifest, use_s5cmd_sync, dirTemplate, state of downloadDir
    m_outcome,                \* "idle" | "returned" | "ValueError" | "TypeError"
    m_result,                 \* what the call computed: merged_df, endpoint, size, files, log
    \* ---- download_from_selection ----
    sm_instance_index,        \* self.sm_instance_index: installed or not, and its rows
    d_sel,                    \* the six filters of the call
    d_args,                   \* dry_run, use_s5cmd_sync, dirTemplate, free space, state of downloadDir
    d_outcome,                \* "idle" | "returned" | "s5cmd_run" | "ValueError" | "TypeError"
    d_result,                 \* what the call computed: size, file of commands, directories
    \* ---- _s5cmd_run and _track_download_progress ----
    r_args,                   \* use_s5cmd_sync, quiet, show_progress_bar, total_size, helper frame
    disk,                     \* the files that lie in downloadDir and below it
    temp_files,               \* the file of commands, the synced one and the stderr log
    r_pc,                     \* "idle" | "call" | "tracking" | "done"
    process,                  \* the s5cmd process that transfers: state, files to copy, exit code
    track,                    \* the tracking: size, directories, baseline, value of the bar
    r_log,                    \* the messages logged by the call
    \* ---- IDCClient.client() ----
    _client,                  \* the class attribute: NoClient or the instance it holds
    constructed,              \* number of IDCClient instances constructed so far
    calls,                    \* the calls made so far and the instance each returned
    \* ---- fetch_index ----
    indices_overview,         \* per client instance: the installed flag of every known index
    cls_tables,               \* the tables set as attributes of the class IDCClient
    f_last,                   \* the last call of fetch_index: client, name, response, outcome
    \* ---- operations on the data frames ----
    q_pc,                     \* the operation that runs and its next statement
    q_env,                    \* the object every attribute and local name is bound to
    written,                  \* per object: the columns assigned since it was loaded or created
    q_next,                   \* the next object an operation creates
    q_done,                   \* number of operations that have returned
    \* ---- _get_dir_sum_file_size ----
    entries,                  \* the watched directory: per name, absent, a file or a directory
    sum_call,                 \* the call of _get_dir_sum_file_size: position, listing, sum
    tool_steps                \* changes s5cmd has made in the watched directory

selVars == <<df_index, sel, outcome, result_df, err>>

tplVars == <<dirTemplate, t_outcome, concat_command, residue>>

manVars == <<index, previous_versions_index, manifest_df, m_args, m_outcome, m_result>>

dlVars == <<sm_instance_index, d_sel, d_args, d_outcome, d_result>>

runVars == <<r_args, disk, temp_files, r_pc, process, track, r_log>>

cliVars == <<_client, constructed, calls>>

fetchVars == <<indices_overview, cls_tables, f_last>>

frameVars == <<q_pc, q_env, written, q_next, q_done>>

\* one directory that the tracking watches and a call of
\* _get_dir_sum_file_size on it
dirVars == <<entries, sum_call, tool_steps>>

vars == <<selVars, tplVars, manVars, dlVars, runVars, cliVars, fetchVars, frameVars, dirVars>>

----------------------------------------------------------------------------
\* Bounds of the model

\* rows of the largest index
MaxRows == 6

\* identifier values a caller may supply: 1..MaxVal
MaxVal == 2

\* number of filters a caller supplies at once
MaxSupplied == 2

\* number of chunks a directory template is made of
MaxParts == 3

\* series in the current index
NumCurrent == 1

\* series in the index of prior versions
NumPrior == 1

\* copy commands in a manifest
MaxLines == 2

\* rows of sm_instance_index
NumInstances == 2

\* free space that holds every selection, in hundredths of a MB
EnoughSpace == 1000000

\* series of the plan handed to _s5cmd_run
NumPlanSeries == 2

\* files of every series in the bucket
FilesPerSeries == 2

\* commands of one s5cmd process that may fail
MaxErrors == 1

\* calls of client() and constructions of IDCClient that are followed
MaxCalls == 6

\* client instances that call fetch_index
NumClients == 2

\* operations on the data frames that are followed
MaxOps == 3

\* names of the entries of the watched directory
NumNames == 2

\* changes s5cmd makes in the watched directory
MaxToolSteps == 3

\* calls of _get_dir_sum_file_size that are followed
MaxSumCalls == 2

----------------------------------------------------------------------------
\* The index: one row per DICOM instance, columns are the six identifiers.

Columns ==
    {"crdc_series_uuid", "SOPInstanceUID", "SeriesInstanceUID",
     "StudyInstanceUID", "PatientID", "collection_id"}

\* Row i of the index. Two instances per series, one series per study,
\* studies alternate between two patients, one patient per collection:
\* every child identifier has exactly one parent.
IndexRow(i) ==
    LET series == (i + 1) \div 2
        patient == ((series - 1) % 2) + 1
    IN  [ SOPInstanceUID    |-> i,
          crdc_series_uuid  |-> series,
          SeriesInstanceUID |-> series,
          StudyInstanceUID  |-> series,
          PatientID         |-> patient,
          collection_id     |-> patient ]

\* The one-to-many hierarchy documented in _safe_filter_by_selection.
Hierarchy(df) ==
    \A r1, r2 \in df :
        /\ r1.SOPInstanceUID = r2.SOPInstanceUID => r1.crdc_series_uuid = r2.crdc_series_uuid
        /\ r1.crdc_series_uuid = r2.crdc_series_uuid => r1.SeriesInstanceUID = r2.SeriesInstanceUID
        /\ r1.SeriesInstanceUID = r2.SeriesInstanceUID => r1.StudyInstanceUID = r2.StudyInstanceUID
        /\ r1.StudyInstanceUID = r2.StudyInstanceUID => r1.PatientID = r2.PatientID
        /\ r1.PatientID = r2.PatientID => r1.collection_id = r2.collection_id

----------------------------------------------------------------------------
\* Filter arguments: None, a string, a list of strings, or another type.

None == [kind |-> "None", vals |-> {}]

Str(v) == [kind |-> "str", vals |-> {v}]

List(S) == [kind |-> "list", vals |-> S]

Other == [kind |-> "other", vals |-> {}]

FilterArgs ==
    {None, Other} \cup {Str(v) : v \in 1..MaxVal} \cup {List(S) : S \in SUBSET (1..MaxVal)}

NoSelection == [c \in Columns |-> None]

Supplied(s) == {c \in Columns : s[c] # None}

\* the sets of filters a caller supplies: at most MaxSupplied of the six
SuppliedSets == {D \in SUBSET Columns : Cardinality(D) <= MaxSupplied}

\* every selection that supplies exactly the filters of C
Selections(C) ==
    { [c \in Columns |-> IF c \in C THEN f[c] ELSE None] : f \in [C -> FilterArgs \ {None}] }

\* isinstance(x, str) or isinstance(x, list)
IsStrOrList(x) == x.kind \in {"str", "list"}

----------------------------------------------------------------------------
\* _filter_dataframe_by_id(key, dataframe, _id)

\* mutant: an empty result is returned instead of raising
Mut_filter_dataframe_by_id_silent(key, dataframe, _id) ==
    [kind |-> "df", df |-> {r \in dataframe : r[key] \in _id.vals}, key |-> key, values |-> _id.vals]

\* mutant: the mask is dropped, every row of the frame is kept
Mut_filter_dataframe_by_id_nomask(key, dataframe, _id) ==
    IF {r \in dataframe : r[key] \in _id.vals} = {}
    THEN [kind |-> "ValueError", df |-> {}, key |-> key, values |-> _id.vals]
    ELSE [kind |-> "df", df |-> dataframe, key |-> key, values |-> _id.vals]

_filter_dataframe_by_id(key, dataframe, _id) ==
    LET values == _id.vals
        filtered_df == {r \in dataframe : r[key] \in values}
    IN  IF filtered_df = {}
        THEN [kind |-> "ValueError", df |-> {}, key |-> key, values |-> values]
        ELSE [kind |-> "df", df |-> filtered_df, key |-> key, values |-> values]

TypeErrorOf(name) == [kind |-> "TypeError", df |-> {}, key |-> name, values |-> {}]

\* mutant: the filters are tried top-down, the least specific one wins
Mut_safe_filter_top_down(df, collection_id, patientId, studyInstanceUID, seriesInstanceUID, sopInstanceUID, crdc_series_uuid) ==
    IF collection_id # None THEN _filter_dataframe_by_id("collection_id", df, collection_id)
    ELSE IF patientId # None THEN _filter_dataframe_by_id("PatientID", df, patientId)
    ELSE IF studyInstanceUID # None THEN _filter_dataframe_by_id("StudyInstanceUID", df, studyInstanceUID)
    ELSE IF seriesInstanceUID # None THEN _filter_dataframe_by_id("SeriesInstanceUID", df, seriesInstanceUID)
    ELSE IF sopInstanceUID # None THEN _filter_dataframe_by_id("SOPInstanceUID", df, sopInstanceUID)
    ELSE IF crdc_series_uuid # None THEN _filter_dataframe_by_id("crdc_series_uuid", df, crdc_series_uuid)
    ELSE [kind |-> "None", df |-> {}, key |-> "", values |-> {}]

\* mutant: the series filter is tried last, after the collection filter
Mut_safe_filter_series_last(df, collection_id, patientId, studyInstanceUID, seriesInstanceUID, sopInstanceUID, crdc_series_uuid) ==
    IF crdc_series_uuid # None THEN _filter_dataframe_by_id("crdc_series_uuid", df, crdc_series_uuid)
    ELSE IF sopInstanceUID # None THEN _filter_dataframe_by_id("SOPInstanceUID", df, sopInstanceUID)
    ELSE IF studyInstanceUID # None THEN _filter_dataframe_by_id("StudyInstanceUID", df, studyInstanceUID)
    ELSE IF patientId # None THEN _filter_dataframe_by_id("PatientID", df, patientId)
    ELSE IF collection_id # None THEN _filter_dataframe_by_id("collection_id", df, collection_id)
    ELSE IF seriesInstanceUID # None THEN _filter_dataframe_by_id("SeriesInstanceUID", df, seriesInstanceUID)
    ELSE [kind |-> "None", df |-> {}, key |-> "", values |-> {}]

\* _safe_filter_by_selection: the type checks in source order, then the
\* first non-None filter from the most specific to the least specific.
_safe_filter_by_selection(df, collection_id, patientId, studyInstanceUID, seriesInstanceUID, sopInstanceUID, crdc_series_uuid) ==
    IF collection_id # None /\ ~IsStrOrList(collection_id) THEN TypeErrorOf("collection_id")
    ELSE IF patientId # None /\ ~IsStrOrList(patientId) THEN TypeErrorOf("patientId")
    ELSE IF studyInstanceUID # None /\ ~IsStrOrList(studyInstanceUID) THEN TypeErrorOf("studyInstanceUID")
    ELSE IF seriesInstanceUID # None /\ ~IsStrOrList(seriesInstanceUID) THEN TypeErrorOf("seriesInstanceUID")
    ELSE IF sopInstanceUID # None /\ ~IsStrOrList(sopInstanceUID) THEN TypeErrorOf("sopInstanceUID")
    ELSE IF crdc_series_uuid # None /\ ~IsStrOrList(crdc_series_uuid) THEN TypeErrorOf("crdc_series_uuid")
    ELSE IF crdc_series_uuid # None THEN _filter_dataframe_by_id("crdc_series_uuid", df, crdc_series_uuid)
    ELSE IF sopInstanceUID # None THEN _filter_dataframe_by_id("SOPInstanceUID", df, sopInstanceUID)
    ELSE IF seriesInstanceUID # None THEN _filter_dataframe_by_id("SeriesInstanceUID", df, seriesInstanceUID)
    ELSE IF studyInstanceUID # None THEN _filter_dataframe_by_id("StudyInstanceUID", df, studyInstanceUID)
    ELSE IF patientId # None THEN _filter_dataframe_by_id("PatientID", df, patientId)
    ELSE IF collection_id # None THEN _filter_dataframe_by_id("collection_id", df, collection_id)
    ELSE [kind |-> "None", df |-> {}, key |-> "", values |-> {}]

\* the call with the arguments taken from a selection record
FilterBySelection(df, s) ==
    _safe_filter_by_selection(df, s.collection_id, s.PatientID, s.StudyInstanceUID, s.SeriesInstanceUID, s.SOPInstanceUID, s.crdc_series_uuid)

----------------------------------------------------------------------------
\* Strings. A string is a sequence of atoms; an atom stands for characters
\* that no modelled input splits ("Patient", "ID", "%", "'", ...).

\* str.replace(old, new): every non-overlapping occurrence, left to right
RECURSIVE Replace(_, _, _)
Replace(s, old, new) ==
    IF Len(s) < Len(old) \/ old = <<>> THEN s
    ELSE IF SubSeq(s, 1, Len(old)) = old
         THEN new \o Replace(SubSeq(s, Len(old) + 1, Len(s)), old, new)
         ELSE <<s[1]>> \o Replace(Tail(s), old, new)

\* f"', {attr},'"
ColumnReference(attr) == <<"'", ",", " ">> \o attr \o <<",", "'">>

\* "for attr in attrs: s = s.replace('%' + attr, new)" over the first n
\* attributes; new is "" (validation) or the column reference
RECURSIVE ReplaceEach(_, _, _, _)
ReplaceEach(s, attrs, n, asColumn) ==
    IF n = 0 THEN s
    ELSE Replace(ReplaceEach(s, attrs, n - 1, asColumn), <<"%">> \o attrs[n],
                 IF asColumn THEN ColumnReference(attrs[n]) ELSE <<>>)

\* "for sep in seps: s = s.replace(sep, '')" over the first n separators
RECURSIVE RemoveEach(_, _, _)
RemoveEach(s, olds, n) ==
    IF n = 0 THEN s
    ELSE Replace(RemoveEach(s, olds, n - 1), olds[n], <<>>)

----------------------------------------------------------------------------
\* _generate_sql_concat_for_building_directory(dirTemplate, downloadDir)

valid_attributes ==
    << <<"Patient", "ID">>, <<"collection", "_", "id">>, <<"Mod", "ality">>,
       <<"Study", "InstanceUID">>, <<"Series", "InstanceUID">> >>

valid_separators == << <<"_">>, <<"-">>, <<"/">> >>

\* "%collection_id/%PatientID/%StudyInstanceUID/%Modality_%SeriesInstanceUID"
DOWNLOAD_HIERARCHY_DEFAULT ==
    <<"%", "collection", "_", "id", "/", "%", "Patient", "ID", "/",
      "%", "Study", "InstanceUID", "/", "%", "Mod", "ality", "_",
      "%", "Series", "InstanceUID">>

\* the download directory, a path without quotes
downloadDir == <<"D">>

\* what the validation leaves of the template
UpdatedTemplate(template) ==
    RemoveEach(ReplaceEach(template, valid_attributes, Len(valid_attributes), FALSE),
               valid_separators, Len(valid_separators))

\* mutant: the template is not validated
Mut_generate_sql_concat_unvalidated(template, dir) ==
    [kind |-> "ok", residue |-> <<>>,
     concat |-> <<"CONCAT(", "'">> \o dir \o <<"/", "'", ",", "'">>
                \o ReplaceEach(template, valid_attributes, Len(valid_attributes), TRUE)
                \o <<"'", ")">>]

\* mutant: an empty template stands for the default hierarchy
Mut_generate_sql_concat_empty_is_default(template, dir) ==
    LET used == IF template = <<>> THEN DOWNLOAD_HIERARCHY_DEFAULT ELSE template
        updated_template == UpdatedTemplate(used)
        substituted == ReplaceEach(used, valid_attributes, Len(valid_attributes), TRUE)
        wrapped == <<"CONCAT(", "'">> \o dir \o <<"/", "'", ",", "'">> \o substituted \o <<"'", ")">>
        r1 == Replace(wrapped, <<",", "'", "'">>, <<>>)
        r2 == Replace(r1, <<"'", "'", ",">>, <<>>)
        r3 == Replace(r2, <<",", "'", "'", ",">>, <<>>)
    IN  IF updated_template # <<>>
        THEN [kind |-> "ValueError", residue |-> updated_template, concat |-> <<>>]
        ELSE [kind |-> "ok", residue |-> <<>>, concat |-> r3]

_generate_sql_concat_for_building_directory(template, dir) ==
    LET updated_template == UpdatedTemplate(template)
        substituted == ReplaceEach(template, valid_attributes, Len(valid_attributes), TRUE)
        wrapped == <<"CONCAT(", "'">> \o dir \o <<"/", "'", ",", "'">> \o substituted \o <<"'", ")">>
        r1 == Replace(wrapped, <<",", "'", "'">>, <<>>)
        r2 == Replace(r1, <<"'", "'", ",">>, <<>>)
        r3 == Replace(r2, <<",", "'", "'", ",">>, <<>>)
    IN  IF updated_template # <<>>
        THEN [kind |-> "ValueError", residue |-> updated_template, concat |-> <<>>]
        ELSE [kind |-> "ok", residue |-> <<>>, concat |-> r3]

\* Templates handed to the resolver: up to MaxParts chunks, each a token, a
\* separator, a piece of a token or a foreign word.
TemplateChunks ==
    {<<"%">> \o valid_attributes[i] : i \in 1..Len(valid_attributes)}
    \cup {valid_separators[i] : i \in 1..Len(valid_separators)}
    \cup {<<"%", "Mod">>, <<"ality">>, <<"%">>, <<"Bad">>, <<"%", "Bad">>}

RECURSIVE Templates(_)
Templates(n) ==
    IF n = 0 THEN {<<>>}
    ELSE Templates(n - 1) \cup {t \o c : t \in Templates(n - 1), c \in TemplateChunks}

\* the value of m_result while no manifest has been reconciled
NoResult ==
    [reason |-> "", merged_df |-> <<>>, rejoined |-> FALSE, ls |-> <<>>,
     endpoint_to_use |-> "", total_size |-> 0,
     temp_manifest_file |-> [created |-> FALSE, commands |-> <<>>],
     list_of_directories |-> <<>>, log |-> <<>>]

NoArgs ==
    [validate_manifest |-> TRUE, use_s5cmd_sync |-> FALSE, dir_not_empty |-> FALSE,
     dirTemplate |-> [none |-> TRUE, s |-> <<>>]]

\* the value of d_result while no download has been planned
NoPlan ==
    [reason |-> "", total_size |-> 0, use_s5cmd_sync |-> FALSE, rows |-> <<>>,
     endpoint_to_use |-> "",
     temp_manifest_file |-> [created |-> FALSE, commands |-> <<>>],
     list_of_directories |-> <<>>, log |-> <<>>]

NoDownloadArgs ==
    [dry_run |-> FALSE, use_s5cmd_sync |-> FALSE, dir_not_empty |-> FALSE,
     disk_free_space_MB |-> 0, dirTemplate |-> [none |-> TRUE, s |-> <<>>]]

NoFile == [created |-> FALSE, exists |-> FALSE, lines |-> <<>>]

NoTempFiles == [manifest_file |-> NoFile, synced_manifest |-> NoFile, stderr_log_file |-> NoFile]

NoRunArgs ==
    [use_s5cmd_sync |-> FALSE, quiet |-> FALSE, show_progress_bar |-> FALSE,
     layout |-> "none", total_size |-> 0, list_of_directories |-> <<>>,
     s5cmd_sync_helper_df |-> <<>>]

NoProcess ==
    [state |-> "none", manifest |-> "none", todo |-> <<>>, copied |-> 0, errors |-> 0,
     returncode |-> 0]

NoTrack ==
    [size_MB |-> 0, list_of_directories |-> <<>>, initial_size_bytes |-> 0,
     polled |-> FALSE, pbar_n |-> 0]

RunIdle ==
    /\ r_args = NoRunArgs
    /\ disk = {}
    /\ temp_files = NoTempFiles
    /\ r_pc = "idle"
    /\ process = NoProcess
    /\ track = NoTrack
    /\ r_log = {}

NoClient == 0

ClientIdle ==
    /\ _client = NoClient
    /\ constructed = 0
    /\ calls = <<>>

\* the value of f_last while fetch_index has not been called
NoFetch ==
    [client |-> 0, index |-> "", response |-> [kind |-> "", status_code |-> 0],
     was_installed |-> FALSE, outcome |-> "idle", log |-> ""]

FetchIdle ==
    /\ indices_overview = <<>>
    /\ cls_tables = <<>>
    /\ f_last = NoFetch

\* the value of sum_call while _get_dir_sum_file_size is not running
NoSumCall ==
    [pc |-> "idle", listed |-> <<>>, i |-> 0, sum_file_size |-> 0, gone |-> {},
     added |-> <<>>, caught |-> 0, raised |-> "", calls |-> 0]

DirIdle ==
    /\ entries = <<>>
    /\ sum_call = NoSumCall
    /\ tool_steps = 0

\* the operations on data frames: nothing is running
FramesIdle ==
    /\ q_pc = [name |-> "", i |-> 0]
    /\ q_env = <<>>
    /\ written = <<>>
    /\ q_next = 0
    /\ q_done = 0

DownloadIdle ==
    /\ sm_instance_index = [installed |-> FALSE, df |-> {}]
    /\ d_sel = NoSelection
    /\ d_args = NoDownloadArgs
    /\ d_outcome = "idle"
    /\ d_result = NoPlan

ManifestIdle ==
    /\ index = {}
    /\ previous_versions_index = {}
    /\ manifest_df = <<>>
    /\ m_args = NoArgs
    /\ m_outcome = "idle"
    /\ m_result = NoResult

TemplateIdle ==
    /\ dirTemplate = <<>>
    /\ t_outcome = "idle"
    /\ concat_command = <<>>
    /\ residue = <<>>

SelectionIdle ==
    /\ df_index = {}
    /\ sel = NoSelection
    /\ outcome = "idle"
    /\ result_df = {}
    /\ err = [key |-> "", values |-> {}]

InitTemplate ==
    /\ RunIdle
    /\ ClientIdle
    /\ FetchIdle
    /\ FramesIdle /\ DirIdle
    /\ dirTemplate \in Templates(MaxParts)
    /\ t_outcome = "idle"
    /\ concat_command = <<>>
    /\ residue = <<>>
    /\ SelectionIdle
    /\ ManifestIdle
    /\ DownloadIdle

GenerateSqlConcat ==
    /\ t_outcome = "idle"
    /\ LET r == _generate_sql_concat_for_building_directory(dirTemplate, downloadDir)
       IN  /\ t_outcome' = r.kind
           /\ concat_command' = r.concat
           /\ residue' = r.residue
    /\ UNCHANGED <<dirTemplate, selVars, manVars, dlVars, runVars, cliVars, fetchVars, frameVars, dirVars>>

NextTemplate == GenerateSqlConcat

SpecTemplate == InitTemplate /\ [][NextTemplate]_vars

----------------------------------------------------------------------------
\* SQL text functions used by the manifest queries (DuckDB), on strings of
\* atoms. NULL is a value of its own.

NULL == <<"<NULL>">>

\* a NULL series_size_MB
NULL_SIZE == -1

RECURSIVE CountAtom(_, _, _)
\* occurrences of atom a among the first n atoms of s
CountAtom(s, a, n) ==
    IF n = 0 THEN 0
    ELSE CountAtom(s, a, n - 1) + (IF s[n] = a THEN 1 ELSE 0)

\* the atoms of s from position i up to the first atom in stops (excluded)
RECURSIVE RunFrom(_, _, _)
RunFrom(s, i, stops) ==
    IF i > Len(s) \/ s[i] \in stops THEN <<>>
    ELSE <<s[i]>> \o RunFrom(s, i + 1, stops)

\* REGEXP_EXTRACT(s, '(?:.*?\/){3}([^\/?#]+)', 1): the segment that follows
\* the third slash, or a later one when that segment is empty; '' without
\* a match
RegexpExtractUuid(s) ==
    LET starts == {i \in 1..Len(s) :
                      /\ s[i] = "/"
                      /\ CountAtom(s, "/", i) >= 3
                      /\ i < Len(s)
                      /\ s[i + 1] \notin {"/", "?", "#"}}
    IN  IF starts = {} THEN <<>>
        ELSE LET i == CHOOSE j \in starts : \A k \in starts : j <= k
             IN  RunFrom(s, i + 1, {"/", "?", "#"})

\* REGEXP_EXTRACT(s, 's3://\S+'): from the first "s3://" that a non-blank
\* follows up to the next blank; '' without a match
RegexpExtractS3Url(s) ==
    LET starts == {i \in 1..Len(s) :
                      /\ i + 3 <= Len(s)
                      /\ SubSeq(s, i, i + 2) = <<"s3:", "/", "/">>
                      /\ s[i + 3] # " "}
    IN  IF starts = {} THEN <<>>
        ELSE LET i == CHOOSE j \in starts : \A k \in starts : j <= k
             IN  RunFrom(s, i, {" "})

\* regexp_replace(s, old, ''): the first occurrence only
RECURSIVE ReplaceFirst(_, _)
ReplaceFirst(s, old) ==
    IF Len(s) < Len(old) THEN s
    ELSE IF SubSeq(s, 1, Len(old)) = old THEN SubSeq(s, Len(old) + 1, Len(s))
         ELSE <<s[1]>> \o ReplaceFirst(Tail(s), old)

\* REGEXP_REPLACE(s, '\s[^\s]*$', ''): drops the last blank and what follows
DropLastWord(s) ==
    LET blanks == {i \in 1..Len(s) : s[i] = " "}
    IN  IF blanks = {} THEN s
        ELSE SubSeq(s, 1, (CHOOSE i \in blanks : \A k \in blanks : k <= i) - 1)

\* REGEXP_REPLACE(regexp_replace(cmd, 'cp ', ''), '\s[^\s]*$', '')
S3UrlOfCopyCommand(cmd) == DropLastWord(ReplaceFirst(cmd, <<"cp", " ">>))

\* TRIM(s): blanks dropped at both ends
RECURSIVE TrimLeft(_)
TrimLeft(s) == IF s # <<>> /\ s[1] = " " THEN TrimLeft(Tail(s)) ELSE s

RECURSIVE TrimRight(_)
TrimRight(s) ==
    IF s # <<>> /\ s[Len(s)] = " " THEN TrimRight(SubSeq(s, 1, Len(s) - 1)) ELSE s

Trim(s) == TrimRight(TrimLeft(s))

\* the value of the column a CONCAT argument names, in a row
ColumnValue(row, name) ==
    CASE name = <<"Patient", "ID">> -> row.PatientID
      [] name = <<"collection", "_", "id">> -> row.collection_id
      [] name = <<"Mod", "ality">> -> row.Modality
      [] name = <<"Study", "InstanceUID">> -> row.StudyInstanceUID
      [] name = <<"Series", "InstanceUID">> -> row.SeriesInstanceUID
      [] OTHER -> NULL

\* The value of the expression CONCAT(arg, ...) in a row: the quoted
\* literals and the values of the named columns, in order (NULL skipped).
\* expr is read from position i; inQuote tells whether i is inside a literal.
RECURSIVE EvalConcat(_, _, _, _)
EvalConcat(expr, i, inQuote, row) ==
    IF i > Len(expr) THEN <<>>
    ELSE IF expr[i] = "'" THEN EvalConcat(expr, i + 1, ~inQuote, row)
    ELSE IF inQuote THEN <<expr[i]>> \o EvalConcat(expr, i + 1, inQuote, row)
    ELSE IF expr[i] \in {"CONCAT(", ")", ",", " "} THEN EvalConcat(expr, i + 1, inQuote, row)
    ELSE LET name == RunFrom(expr, i, {",", ")", " ", "'"})
             value == ColumnValue(row, name)
         IN  (IF value = NULL THEN <<>> ELSE value)
             \o EvalConcat(expr, i + Len(name), inQuote, row)

----------------------------------------------------------------------------
\* The series-level indices and the manifest

aws_endpoint_url == "https://s3.amazonaws.com"

gcp_endpoint_url == "https://storage.googleapis.com"

\* the bucket of the series_aws_url column, and a bucket of the other provider
AwsBucket == "idc-open-data"

GcsBucket == "public-datasets-idc"

\* a one-atom string
Id(prefix, k) == <<prefix \o ToString(k)>>

\* "s3://<bucket>/<uuid>/*"
S3Url(bucket, uuid) == <<"s3:", "/", "/", bucket, "/">> \o uuid \o <<"/", "*">>

\* Row k of the series-level tables; rows 1..NumCurrent are the current
\* index, the following NumPrior rows the prior versions (an earlier
\* version of a series: its own crdc_series_uuid and locator). Sizes are in
\* hundredths of a MB, so that round(x, 2) changes no sum.
SeriesRow(k) ==
    LET series == IF k <= NumCurrent THEN k ELSE ((k - NumCurrent - 1) % NumCurrent) + 1
    IN  [ SeriesInstanceUID |-> Id("series", series),
          StudyInstanceUID  |-> Id("study", series),
          PatientID         |-> Id("patient", ((series - 1) % 2) + 1),
          collection_id     |-> Id("collection", ((series - 1) % 2) + 1),
          Modality          |-> <<"CT">>,
          crdc_series_uuid  |-> Id("uuid", k),
          series_aws_url    |-> S3Url(AwsBucket, Id("uuid", k)),
          series_size_MB    |-> 100 * k + 25 ]

CurrentIndex == {SeriesRow(k) : k \in 1..NumCurrent}

PriorVersionsIndex == {SeriesRow(k) : k \in (NumCurrent + 1)..(NumCurrent + NumPrior)}

\* "cp s3://<bucket>/<uuid>/* ."
CopyCommand(bucket, uuid) == <<"cp", " ">> \o S3Url(bucket, uuid) \o <<" ", ".">>

\* The copy commands a manifest may hold: a series of the current index or
\* of the prior versions in either provider's bucket, and a series of
\* neither (uuid0).
CopyCommands ==
    {CopyCommand(AwsBucket, Id("uuid", 0))}
    \cup {CopyCommand(b, Id("uuid", k)) : b \in {AwsBucket, GcsBucket}, k \in 1..(NumCurrent + NumPrior)}

RECURSIVE SeqsUpTo(_, _)
\* the sequences over S of length 1..n
SeqsUpTo(S, n) ==
    IF n = 0 THEN {}
    ELSE {<<x>> : x \in S} \cup {s \o <<x>> : s \in SeqsUpTo(S, n - 1), x \in S}

Manifests == SeqsUpTo(CopyCommands, MaxLines)

\* dirTemplate: None, the empty string, the default hierarchy, a single
\* attribute, a foreign token
ManifestTemplates ==
    {[none |-> TRUE, s |-> <<>>],
     [none |-> FALSE, s |-> <<>>],
     [none |-> FALSE, s |-> DOWNLOAD_HIERARCHY_DEFAULT],
     [none |-> FALSE, s |-> <<"%", "Patient", "ID">>],
     [none |-> FALSE, s |-> <<"%", "Bad">>]}

\* What "s5cmd ls" may report: the listing with exit code 0, or exit code 1
\* with the error on stderr (and, as the code expects, possibly on stdout).
LsResults ==
    {[returncode |-> 0, stdout |-> "listing", stderr |-> ""],
     [returncode |-> 1, stdout |-> "", stderr |-> "ERROR"],
     [returncode |-> 1, stdout |-> "ERROR", stderr |-> "ERROR"]}

----------------------------------------------------------------------------
\* _validate_update_manifest_and_get_download_size

\* index_temp of both queries: the rows with their path and the uuid taken
\* from the locator
IndexTemp(df, hierarchy) ==
    {[seriesInstanceUID |-> r.SeriesInstanceUID,
      series_aws_url |-> r.series_aws_url,
      series_size_MB |-> r.series_size_MB,
      path |-> EvalConcat(hierarchy, 1, FALSE, r),
      index_crdc_series_uuid |-> RegexpExtractUuid(r.series_aws_url)] : r \in df}

RECURSIVE SeqOfSet(_)
SeqOfSet(S) ==
    IF S = {} THEN <<>>
    ELSE LET x == CHOOSE y \in S : TRUE IN <<x>> \o SeqOfSet(S \ {x})

\* the rows of the LEFT JOIN for one copy command; second tells which of
\* the two queries is run (they extract and compare s3_url differently)
JoinedRows(cmd, index_temp, second) ==
    LET uuid == RegexpExtractUuid(cmd)
        s3_url == IF second THEN S3UrlOfCopyCommand(cmd) ELSE RegexpExtractS3Url(cmd)
        matches == {r \in index_temp : r.index_crdc_series_uuid = uuid}
        Same(r) == IF second THEN Trim(s3_url) = Trim(r.series_aws_url)
                   ELSE s3_url = r.series_aws_url
        Row(r) == [seriesInstanceuid |-> r.seriesInstanceUID,
                   index_crdc_series_uuid |-> r.index_crdc_series_uuid,
                   s3_url |-> s3_url,
                   path |-> r.path,
                   series_size_MB |-> r.series_size_MB,
                   crdc_series_uuid_match |-> TRUE,
                   s3_url_match |-> Same(r),
                   manifest_cp_cmd |-> cmd,
                   endpoint |-> IF Same(r) THEN "aws" ELSE "unknown"]
    IN  IF matches = {}
        THEN << [seriesInstanceuid |-> NULL,
                 index_crdc_series_uuid |-> NULL,
                 s3_url |-> s3_url,
                 path |-> NULL,
                 series_size_MB |-> NULL_SIZE,
                 crdc_series_uuid_match |-> FALSE,
                 s3_url_match |-> FALSE,
                 manifest_cp_cmd |-> cmd,
                 endpoint |-> "unknown"] >>
        ELSE SeqOfSet({Row(r) : r \in matches})

RECURSIVE LeftJoin(_, _, _)
LeftJoin(cmds, index_temp, second) ==
    IF cmds = <<>> THEN <<>>
    ELSE JoinedRows(Head(cmds), index_temp, second) \o LeftJoin(Tail(cmds), index_temp, second)

AllMatch(merged_df) == \A i \in 1..Len(merged_df) : merged_df[i].crdc_series_uuid_match

\* merged_df.loc[~merged_df["crdc_series_uuid_match"], "manifest_cp_cmd"]
RECURSIVE MissingCommands(_)
MissingCommands(merged_df) ==
    IF merged_df = <<>> THEN <<>>
    ELSE (IF Head(merged_df).crdc_series_uuid_match THEN <<>> ELSE <<Head(merged_df).manifest_cp_cmd>>)
         \o MissingCommands(Tail(merged_df))

\* merged_df["series_size_MB"].sum(): NULL is skipped
RECURSIVE SumSizes(_)
SumSizes(merged_df) ==
    IF merged_df = <<>> THEN 0
    ELSE (IF Head(merged_df).series_size_MB = NULL_SIZE THEN 0 ELSE Head(merged_df).series_size_MB)
         + SumSizes(Tail(merged_df))

Endpoints(merged_df) == {merged_df[i].endpoint : i \in 1..Len(merged_df)}

\* verb + " " + s3_url + ' "' + destination + '"'; a NULL operand makes the
\* whole command NaN
S5cmdCmd(verb, s3_url, destination) ==
    IF s3_url = NULL \/ destination = NULL THEN NULL
    ELSE <<verb, " ">> \o s3_url \o <<" ", "\"">> \o destination \o <<"\"">>

\* the two index generations united (union by name)
CombinedIndex(idx, prior) == idx \cup prior

\* hierarchy: the CONCAT expression of the destination path
Hierarchy_Of(tpl) ==
    IF tpl.none
    THEN [kind |-> "ok", residue |-> <<>>, concat |-> <<"CONCAT(", "'">> \o downloadDir \o <<"'", ")">>]
    ELSE _generate_sql_concat_for_building_directory(tpl.s, downloadDir)

\* Lines 734-880: the hierarchy, the join with the current index and, when
\* a command is not matched there, the join with current and prior versions,
\* with what is logged. Result: [kind, merged_df, rejoined, log]
JoinManifest(cmds, idx, prior, tpl) ==
    LET h == Hierarchy_Of(tpl)
    IN  IF h.kind = "ValueError"
        THEN [kind |-> "ValueError", merged_df |-> <<>>, rejoined |-> FALSE, log |-> <<>>]
        ELSE
        LET first == LeftJoin(cmds, IndexTemp(idx, h.concat), FALSE)
        IN  IF AllMatch(first)
            THEN [kind |-> "ok", merged_df |-> first, rejoined |-> FALSE, log |-> <<>>]
            ELSE
            LET second == LeftJoin(cmds, IndexTemp(CombinedIndex(idx, prior), h.concat), TRUE)
            IN  [kind |-> "ok", merged_df |-> second, rejoined |-> TRUE,
                 log |-> <<[level |-> "warning", text |-> "not in main index", lines |-> <<>>]>>
                         \o (IF AllMatch(second)
                             THEN <<[level |-> "info", text |-> "all resolved", lines |-> <<>>]>>
                             ELSE <<[level |-> "error", text |-> "not in any release",
                                     lines |-> MissingCommands(second)]>>)]

\* The endpoint decision. ls is what the listing reports when it is run.
\* Result: [raised, endpoint_to_use, ls_ran]
EndpointToUse(merged_df, validate_manifest, ls) ==
    IF validate_manifest
    THEN IF Cardinality(Endpoints(merged_df)) > 1
         THEN [raised |-> "mixed", endpoint_to_use |-> "", ls_ran |-> FALSE]
         ELSE IF merged_df[1].endpoint = "aws"
              THEN [raised |-> "", endpoint_to_use |-> aws_endpoint_url, ls_ran |-> FALSE]
              ELSE IF ls.stderr # "" /\ ls.stdout = "ERROR"
                   THEN [raised |-> "ls", endpoint_to_use |-> "", ls_ran |-> TRUE]
                   ELSE [raised |-> "", endpoint_to_use |-> gcp_endpoint_url, ls_ran |-> TRUE]
    ELSE IF merged_df[1].endpoint = "aws"
         THEN [raised |-> "", endpoint_to_use |-> aws_endpoint_url, ls_ran |-> FALSE]
         ELSE [raised |-> "", endpoint_to_use |-> gcp_endpoint_url, ls_ran |-> FALSE]

\* merged_df["s5cmd_cmd"]
RECURSIVE S5cmdCmds(_, _, _)
S5cmdCmds(merged_df, verb, tpl) ==
    IF merged_df = <<>> THEN <<>>
    ELSE <<S5cmdCmd(verb, Head(merged_df).s3_url,
                    IF tpl.none THEN downloadDir ELSE Head(merged_df).path)>>
         \o S5cmdCmds(Tail(merged_df), verb, tpl)

Paths(merged_df) == [i \in 1..Len(merged_df) |-> merged_df[i].path]

\* Lines 882-977 after the join j: the endpoint, the size, the file of
\* commands and the directories. Result: [kind, result]
PlanTransfer(j, args, ls) ==
    IF j.kind = "ValueError"
    THEN [kind |-> "ValueError", result |-> [NoResult EXCEPT !.reason = "template"]]
    ELSE
    LET merged_df == j.merged_df
        ep == EndpointToUse(merged_df, args.validate_manifest, ls)
        joined == [NoResult EXCEPT !.merged_df = merged_df, !.rejoined = j.rejoined,
                                   !.log = j.log, !.ls = IF ep.ls_ran THEN <<ls>> ELSE <<>>]
        verb == IF args.use_s5cmd_sync /\ args.dir_not_empty THEN "sync" ELSE "cp"
        commands == S5cmdCmds(merged_df, verb, args.dirTemplate)
        planned == [joined EXCEPT !.endpoint_to_use = ep.endpoint_to_use,
                                  !.total_size = SumSizes(merged_df)]
    IN  IF ep.raised # ""
        THEN [kind |-> "ValueError", result |-> [joined EXCEPT !.reason = ep.raised]]
        ELSE IF \E i \in 1..Len(commands) : commands[i] = NULL
        THEN \* "\n".join(...) meets a NaN: the file is created, nothing is written
             [kind |-> "TypeError",
              result |-> [planned EXCEPT !.reason = "join",
                                         !.temp_manifest_file = [created |-> TRUE, commands |-> <<>>]]]
        ELSE [kind |-> "returned",
              result |-> [planned EXCEPT
                            !.temp_manifest_file = [created |-> TRUE, commands |-> commands],
                            !.list_of_directories =
                                IF args.dirTemplate.none THEN <<downloadDir>> ELSE Paths(merged_df)]]

\* The whole call
_validate_update_manifest_and_get_download_size(cmds, idx, prior, args, ls) ==
    PlanTransfer(JoinManifest(cmds, idx, prior, args.dirTemplate), args, ls)

----------------------------------------------------------------------------
\* Manifest specification: the client holds the two indices; a manifest is
\* reconciled with any arguments.

ManifestArgs(tpl) ==
    [validate_manifest : BOOLEAN, use_s5cmd_sync : BOOLEAN, dir_not_empty : BOOLEAN,
     dirTemplate : {tpl}]

InitManifest ==
    /\ RunIdle
    /\ ClientIdle
    /\ FetchIdle
    /\ FramesIdle /\ DirIdle
    /\ index = CurrentIndex
    /\ previous_versions_index = PriorVersionsIndex
    /\ manifest_df \in Manifests
    /\ m_args = NoArgs
    /\ m_outcome = "idle"
    /\ m_result = NoResult
    /\ SelectionIdle
    /\ TemplateIdle
    /\ DownloadIdle

ValidateUpdateManifest ==
    /\ m_outcome = "idle"
    /\ \E tpl \in ManifestTemplates :
         LET j == JoinManifest(manifest_df, index, previous_versions_index, tpl)
         IN  \E args \in ManifestArgs(tpl), ls \in LsResults :
               LET r == PlanTransfer(j, args, ls)
               IN  /\ m_args' = args
                   /\ m_outcome' = r.kind
                   /\ m_result' = r.result
    /\ UNCHANGED <<index, previous_versions_index, manifest_df, selVars, tplVars, dlVars, runVars, cliVars, fetchVars, frameVars, dirVars>>

NextManifest == ValidateUpdateManifest

SpecManifest == InitManifest /\ [][NextManifest]_vars

----------------------------------------------------------------------------
\* download_from_selection

\* Row i of sm_instance_index: an instance of a series of the current index
InstanceRow(i) ==
    [ SOPInstanceUID     |-> Id("sop", i),
      SeriesInstanceUID  |-> Id("series", ((i - 1) % NumCurrent) + 1),
      crdc_instance_uuid |-> Id("instance", i),
      instance_size      |-> 500000 * i ]

InstanceIndex == {InstanceRow(i) : i \in 1..NumInstances}

\* the values a caller may supply for a filter: the identifiers the tables
\* hold and one that no table holds
ValuesIn(c) ==
    IF c = "SOPInstanceUID" THEN {r[c] : r \in InstanceIndex}
    ELSE {r[c] : r \in CurrentIndex \cup PriorVersionsIndex}

DownloadFilterArgs(c) ==
    {Other, Str(Id("absent", 0)), List(ValuesIn(c))} \cup {Str(v) : v \in ValuesIn(c)}

\* The selections of a download: at most MaxSupplied filters. A selection
\* by sopInstanceUID is filtered in sm_instance_index, whose columns other
\* than those the queries name are not given by the code, so no
\* crdc_series_uuid comes with it.
DownloadSelections ==
    UNION { { [c \in Columns |-> IF c \in C THEN f[c] ELSE None] :
                f \in { g \in [C -> UNION {DownloadFilterArgs(c) : c \in C}] :
                          \A c \in C : g[c] \in DownloadFilterArgs(c) } } :
            C \in {D \in SUBSET Columns :
                      /\ Cardinality(D) <= MaxSupplied
                      /\ ~({"SOPInstanceUID", "crdc_series_uuid"} \subseteq D)} }

DownloadArgs ==
    [dry_run : BOOLEAN, use_s5cmd_sync : BOOLEAN, dir_not_empty : BOOLEAN,
     disk_free_space_MB : {0, EnoughSpace},
     dirTemplate : ManifestTemplates \ {[none |-> FALSE, s |-> <<"%", "Patient", "ID">>]}]

\* "if sopInstanceUID:": neither None nor empty
Truthy(x) == x # None /\ (x.kind = "list" => x.vals # {})

\* result_df["series_size_MB"].sum(), in hundredths of a MB
RECURSIVE SumColumn(_, _)
SumColumn(df, column) ==
    IF df = {} THEN 0
    ELSE LET r == CHOOSE x \in df : TRUE IN r[column] + SumColumn(df \ {r}, column)

\* TRIM('*' FROM s)
RECURSIVE TrimStar(_)
TrimStar(s) ==
    IF s # <<>> /\ s[1] = "*" THEN TrimStar(Tail(s))
    ELSE IF s # <<>> /\ s[Len(s)] = "*" THEN TrimStar(SubSeq(s, 1, Len(s) - 1))
    ELSE s

\* "temp JOIN index using (seriesInstanceUID)": the rows of the current
\* index for the series of each selected row, with the path
RECURSIVE SeriesQuery(_, _, _)
SeriesQuery(selected, idx, hierarchy) ==
    IF selected = <<>> THEN <<>>
    ELSE SeqOfSet({[url |-> r.series_aws_url,
                    index_crdc_series_uuid |-> RegexpExtractUuid(r.series_aws_url),
                    series_size_MB |-> r.series_size_MB,
                    path |-> EvalConcat(hierarchy, 1, FALSE, r)] :
                      r \in {x \in idx : x.SeriesInstanceUID = Head(selected).SeriesInstanceUID}})
         \o SeriesQuery(Tail(selected), idx, hierarchy)

\* "temp JOIN sm_instance_index using (sopInstanceUID) LEFT JOIN index
\* using (seriesInstanceUID)": one row per selected instance and series
RECURSIVE InstanceQuery(_, _, _)
InstanceQuery(selected, idx, hierarchy) ==
    IF selected = <<>> THEN <<>>
    ELSE SeqOfSet({[url |-> TrimStar(r.series_aws_url) \o Head(selected).crdc_instance_uuid \o <<".dcm">>,
                    index_crdc_series_uuid |-> RegexpExtractUuid(r.series_aws_url),
                    series_size_MB |-> r.series_size_MB,
                    path |-> EvalConcat(hierarchy, 1, FALSE, r)] :
                      r \in {x \in idx : x.SeriesInstanceUID = Head(selected).SeriesInstanceUID}})
         \o InstanceQuery(Tail(selected), idx, hierarchy)

\* result_df["s5cmd_cmd"]
DownloadCommands(rows, verb, tpl) ==
    [i \in 1..Len(rows) |->
        S5cmdCmd(verb, rows[i].url, IF tpl.none THEN downloadDir ELSE rows[i].path)]

\* mutant: the free space is not compared with the size
Mut_space_not_checked(disk_free_space_MB, total_size) == FALSE

\* "if disk_free_space_MB < total_size:"
NotEnoughSpace(disk_free_space_MB, total_size) == disk_free_space_MB < total_size

\* mutant: dry_run is not read
Mut_dry_run_ignored(dry_run) == FALSE

\* "if dry_run:"
IsDryRun(dry_run) == dry_run

\* mutant: the error is raised once the commands have been written
Mut_raised_after_writing(kind, reason) ==
    [kind |-> kind,
     result |-> [NoPlan EXCEPT !.reason = reason,
                               !.temp_manifest_file = [created |-> TRUE, commands |-> <<NULL>>]]]

\* an exception that leaves download_from_selection before the query
Raised(kind, reason) == [kind |-> kind, result |-> [NoPlan EXCEPT !.reason = reason]]

\* The call up to the point where _s5cmd_run is handed the file of
\* commands. s is the selection, a the other arguments, sm the instance
\* index and installed whether the client has it. Result: [kind, result]
download_from_selection(idx, prior, sm, installed, s, a) ==
    IF Truthy(s.SOPInstanceUID) /\ ~installed
    THEN Raised("ValueError", "instance-level index not installed")
    ELSE
    LET by_instance == Truthy(s.SOPInstanceUID)
        use_s5cmd_sync == IF by_instance THEN FALSE ELSE a.use_s5cmd_sync
        download_df == IF by_instance THEN sm
                       ELSE IF s.crdc_series_uuid # None THEN idx \cup prior
                       ELSE idx
        filtered == FilterBySelection(download_df, s)
    IN  IF filtered.kind \in {"TypeError", "ValueError"}
        THEN Raised(filtered.kind, "filter")
        ELSE IF filtered.kind = "None"
        THEN \* result_df is None: result_df["series_size_MB"] raises
             Raised("TypeError", "'NoneType' object is not subscriptable")
        ELSE
        LET total_size == IF by_instance
                          THEN SumColumn(filtered.df, "instance_size") \div 10000
                          ELSE SumColumn(filtered.df, "series_size_MB")
            sized == [NoPlan EXCEPT !.total_size = total_size, !.use_s5cmd_sync = use_s5cmd_sync]
            h == Hierarchy_Of(a.dirTemplate)
        IN  IF NotEnoughSpace(a.disk_free_space_MB, total_size)
            THEN [kind |-> "returned",
                  result |-> [sized EXCEPT !.reason = "not enough free space",
                                           !.log = <<"Not enough free space on disk to download the files.">>]]
            ELSE IF IsDryRun(a.dry_run)
            THEN [kind |-> "returned", result |-> [sized EXCEPT !.reason = "dry run"]]
            ELSE IF h.kind = "ValueError"
            THEN [kind |-> "ValueError", result |-> [sized EXCEPT !.reason = "template"]]
            ELSE
            LET rows == IF by_instance
                        THEN InstanceQuery(SeqOfSet(filtered.df), idx, h.concat)
                        ELSE SeriesQuery(SeqOfSet(filtered.df), idx, h.concat)
                verb == IF use_s5cmd_sync /\ a.dir_not_empty THEN "sync" ELSE "cp"
            IN  [kind |-> "s5cmd_run",
                 result |-> [sized EXCEPT
                               !.rows = rows,
                               !.endpoint_to_use = aws_endpoint_url,
                               !.temp_manifest_file =
                                   [created |-> TRUE,
                                    commands |-> DownloadCommands(rows, verb, a.dirTemplate)],
                               !.list_of_directories =
                                   IF a.dirTemplate.none THEN <<downloadDir>>
                                   ELSE [i \in 1..Len(rows) |-> rows[i].path]]]

----------------------------------------------------------------------------
\* Download specification: the client holds the series indices and, when
\* installed, the instance index; a selection is downloaded with any
\* arguments.

InitDownload ==
    /\ RunIdle
    /\ ClientIdle
    /\ FetchIdle
    /\ FramesIdle /\ DirIdle
    /\ index = CurrentIndex
    /\ previous_versions_index = PriorVersionsIndex
    /\ sm_instance_index \in {[installed |-> FALSE, df |-> {}],
                              [installed |-> TRUE, df |-> InstanceIndex]}
    /\ d_sel \in DownloadSelections
    /\ d_args = NoDownloadArgs
    /\ d_outcome = "idle"
    /\ d_result = NoPlan
    /\ manifest_df = <<>>
    /\ m_args = NoArgs
    /\ m_outcome = "idle"
    /\ m_result = NoResult
    /\ SelectionIdle
    /\ TemplateIdle

DownloadFromSelection ==
    /\ d_outcome = "idle"
    /\ \E a \in DownloadArgs :
         LET r == download_from_selection(index, previous_versions_index,
                                          sm_instance_index.df, sm_instance_index.installed,
                                          d_sel, a)
         IN  /\ d_args' = a
             /\ d_outcome' = r.kind
             /\ d_result' = r.result
    /\ UNCHANGED <<sm_instance_index, d_sel, selVars, tplVars, manVars, runVars, cliVars, fetchVars, frameVars, dirVars>>

NextDownload == DownloadFromSelection

SpecDownload == InitDownload /\ [][NextDownload]_vars

----------------------------------------------------------------------------
\* _s5cmd_run: the plan it is handed, the download directory, s5cmd

\* how the destinations of a plan lie: dirTemplate None (all in downloadDir,
\* one watched directory), dirTemplate "" (all in downloadDir, one watched
\* directory per series), or one subdirectory per series
Layouts == {"none", "empty", "tree"}

PlanPath(k, layout) ==
    CASE layout = "none" -> downloadDir
      [] layout = "empty" -> downloadDir \o <<"/">>
      [] OTHER -> downloadDir \o <<"/">> \o Id("series", k)

\* the estimated size of every series of a plan, in hundredths of a MB
PlanSeriesSize == 10 * 10

\* the bytes of every file; the files of a series exceed its estimated size
FileBytes == 6 * 100000

\* bytes of a size in hundredths of a MB: size_MB * (10**6)
BytesOfSize(size) == size * 10000

\* row k of s5cmd_sync_helper_df
HelperRow(k, verb, layout) ==
    [index_crdc_series_uuid |-> Id("uuid", k),
     s5cmd_cmd |-> S5cmdCmd(verb, S3Url(AwsBucket, Id("uuid", k)), PlanPath(k, layout)),
     series_size_MB |-> PlanSeriesSize,
     path |-> PlanPath(k, layout)]

HelperDf(verb, layout) == [k \in 1..NumPlanSeries |-> HelperRow(k, verb, layout)]

\* the directory a path names, as the file system sees it
RECURSIVE Resolved(_)
Resolved(path) ==
    IF path # <<>> /\ path[Len(path)] = "/" THEN Resolved(SubSeq(path, 1, Len(path) - 1))
    ELSE path

\* a file on disk: the directory that holds it and its name
File(dir, name) == [dir |-> Resolved(dir), name |-> name]

\* the objects s5cmd finds under s3://<bucket>/<uuid>/*
RemoteNames(uuid) == [j \in 1..FilesPerSeries |-> <<uuid[1] \o "_" \o ToString(j) \o ".dcm">>]

\* a file that no plan copies, lying in downloadDir
OtherFile == File(downloadDir, <<"other">>)

\* the files of the series 1..n of a plan, in the order s5cmd copies them
RECURSIVE PlanFiles(_, _)
PlanFiles(n, layout) ==
    IF n = 0 THEN <<>>
    ELSE PlanFiles(n - 1, layout)
         \o [j \in 1..FilesPerSeries |->
                File(PlanPath(n, layout), RemoteNames(Id("uuid", n))[j])]

\* len(os.listdir(downloadDir)) != 0: a file lies in downloadDir or below it
DirNotEmpty(files) == files # {}

\* _get_dir_sum_file_size(directory): the bytes of the files that lie in
\* the directory itself
DirSumFileSize(files, directory) ==
    FileBytes * Cardinality({f \in files : f.dir = Resolved(directory)})

\* the part of a command between its double quotes: the destination
QuotedPart(cmd) ==
    LET quotes == {i \in 1..Len(cmd) : cmd[i] = "\""}
        first == CHOOSE i \in quotes : \A j \in quotes : i <= j
        last == CHOOSE i \in quotes : \A j \in quotes : j <= i
    IN  SubSeq(cmd, first + 1, last - 1)

\* the source of a command: what lies between its first two spaces
SourceOf(cmd) ==
    LET spaces == {i \in 3..Len(cmd) : cmd[i] = " "}
        end == CHOOSE i \in spaces : \A j \in spaces : i <= j
    IN  SubSeq(cmd, 3, end - 1)

\* the objects a source names: those of the series for ".../<uuid>/*", the
\* one object named otherwise
ObjectNames(source) ==
    IF source[Len(source)] = "*" THEN RemoteNames(RegexpExtractUuid(source))
    ELSE LET slashes == {i \in 1..Len(source) : source[i] = "/"}
             last == CHOOSE i \in slashes : \A j \in slashes : j <= i
         IN  <<SubSeq(source, last + 1, Len(source))>>

\* the files a command of the file of commands copies: "cp" copies every
\* object, "sync" those that do not lie at the destination
CommandFiles(cmd, files) ==
    LET dest == QuotedPart(cmd)
        names == ObjectNames(SourceOf(cmd))
        all == [j \in 1..Len(names) |-> File(dest, names[j])]
    IN  IF cmd[1] = "sync" THEN SelectSeq(all, LAMBDA f : f \notin files) ELSE all

RECURSIVE FilesToCopy(_, _)
FilesToCopy(commands, files) ==
    IF commands = <<>> THEN <<>>
    ELSE CommandFiles(Head(commands), files) \o FilesToCopy(Tail(commands), files)

\* the lines "s5cmd --dry-run run" prints for a command: one "cp <object>
\* <destination>" for each file it would copy
RECURSIVE DryRunLines(_, _)
DryRunLines(commands, files) ==
    IF commands = <<>> THEN <<>>
    ELSE LET cmd == Head(commands)
             uuid == RegexpExtractUuid(cmd)
             todo == CommandFiles(cmd, files)
         IN  [j \in 1..Len(todo) |->
                 <<"cp", " ", "s3:", "/", "/", AwsBucket, "/">> \o uuid \o <<"/">> \o todo[j].name
                 \o <<" ">> \o todo[j].dir \o <<"/">> \o todo[j].name]
             \o DryRunLines(Tail(commands), files)

\* CONCAT(REGEXP_EXTRACT(line, 'cp (s3://[^/]+/[^/]+)/.*', 1), '/*')
SyncS3Url(line) ==
    LET starts == {i \in 1..Len(line) :
                      /\ i + 8 <= Len(line)
                      /\ SubSeq(line, i, i + 4) = <<"cp", " ", "s3:", "/", "/">>
                      /\ line[i + 5] # "/"
                      /\ line[i + 6] = "/"
                      /\ line[i + 7] # "/"
                      /\ line[i + 8] = "/"}
    IN  IF starts = {} THEN <<"/", "*">>
        ELSE LET i == CHOOSE j \in starts : \A k \in starts : j <= k
             IN  SubSeq(line, i + 2, i + 7) \o <<"/", "*">>

\* DISTINCT over the rows of a query result, first occurrences kept
RECURSIVE Distinct(_)
Distinct(rows) ==
    IF rows = <<>> THEN <<>>
    ELSE LET front == Distinct(SubSeq(rows, 1, Len(rows) - 1))
             last == rows[Len(rows)]
         IN  IF \E i \in 1..Len(front) : front[i] = last THEN front ELSE Append(front, last)

\* mutant: every row of the helper frame is kept
Mut_parse_keeps_every_series(stdout, s5cmd_sync_helper_df) ==
    LET synced_df == Distinct([i \in 1..Len(s5cmd_sync_helper_df) |->
                         [s5cmd_cmd |-> s5cmd_sync_helper_df[i].s5cmd_cmd,
                          series_size_MB |-> s5cmd_sync_helper_df[i].series_size_MB,
                          path |-> s5cmd_sync_helper_df[i].path]])
    IN  [synced_manifest |-> [created |-> TRUE, exists |-> TRUE,
                              lines |-> [i \in 1..Len(synced_df) |-> synced_df[i].s5cmd_cmd]],
         sync_size |-> SumSizes(synced_df),
         list_of_directories |-> [i \in 1..Len(synced_df) |-> synced_df[i].path]]

\* _parse_s5cmd_sync_output_and_generate_synced_manifest: the rows of the
\* helper frame whose series the dry run names, their size, their
\* directories, and the new file of commands
ParseS5cmdSyncOutput(stdout, s5cmd_sync_helper_df) ==
    LET sync_temp == {RegexpExtractUuid(SyncS3Url(stdout[i])) : i \in 1..Len(stdout)}
        joined == SelectSeq(s5cmd_sync_helper_df,
                            LAMBDA row : row.index_crdc_series_uuid \in sync_temp)
        synced_df == Distinct([i \in 1..Len(joined) |->
                         [s5cmd_cmd |-> joined[i].s5cmd_cmd,
                          series_size_MB |-> joined[i].series_size_MB,
                          path |-> joined[i].path]])
    IN  [synced_manifest |-> [created |-> TRUE, exists |-> TRUE,
                              lines |-> [i \in 1..Len(synced_df) |-> synced_df[i].s5cmd_cmd]],
         sync_size |-> SumSizes(synced_df),
         list_of_directories |-> [i \in 1..Len(synced_df) |-> synced_df[i].path]]

\* the verb the planner writes: "sync" when sync was asked for and
\* downloadDir is not empty
Mut_plan_verb_always_cp(use_s5cmd_sync, files) == "cp"

PlanVerb(use_s5cmd_sync, files) == IF use_s5cmd_sync /\ DirNotEmpty(files) THEN "sync" ELSE "cp"

\* list_of_directories as the planner hands it over
PlanDirectories(layout) ==
    IF layout = "none" THEN <<downloadDir>>
    ELSE [k \in 1..NumPlanSeries |-> PlanPath(k, layout)]

\* subprocess.Popen on a file of commands
Popen(manifest, commands, files) ==
    [state |-> "running", manifest |-> manifest, todo |-> FilesToCopy(commands, files),
     copied |-> 0, errors |-> 0, returncode |-> 0]

\* _track_download_progress up to its loop: the baseline is the size of the
\* last directory of the list
TrackStart(size_MB, show_progress_bar, list_of_directories, files) ==
    [size_MB |-> size_MB,
     list_of_directories |-> list_of_directories,
     initial_size_bytes |->
        IF show_progress_bar /\ list_of_directories # <<>>
        THEN DirSumFileSize(files, list_of_directories[Len(list_of_directories)])
        ELSE 0,
     polled |-> FALSE,
     pbar_n |-> 0]

RECURSIVE SumDirSizes(_, _)
SumDirSizes(files, list_of_directories) ==
    IF list_of_directories = <<>> THEN 0
    ELSE DirSumFileSize(files, Head(list_of_directories))
         + SumDirSizes(files, Tail(list_of_directories))

Min(a, b) == IF a <= b THEN a ELSE b

\* one pass of the loop of _track_download_progress: the value given to
\* the progress bar
Mut_progress_uncapped(t, files) ==
    SumDirSizes(files, t.list_of_directories) - t.initial_size_bytes

PbarN(t, files) ==
    Min(SumDirSizes(files, t.list_of_directories) - t.initial_size_bytes,
        BytesOfSize(t.size_MB))

InitRun ==
    /\ SelectionIdle /\ TemplateIdle /\ ManifestIdle /\ DownloadIdle /\ ClientIdle /\ FetchIdle /\ FramesIdle /\ DirIdle
    /\ \E use_s5cmd_sync \in BOOLEAN, quiet \in BOOLEAN, show_progress_bar \in BOOLEAN,
          layout \in Layouts, n \in 0..(NumPlanSeries * FilesPerSeries), other \in BOOLEAN :
          LET present == {PlanFiles(NumPlanSeries, layout)[i] : i \in 1..n}
                         \cup (IF other THEN {OtherFile} ELSE {})
              verb == PlanVerb(use_s5cmd_sync, present)
              helper == HelperDf(verb, layout)
          IN  /\ r_args = [use_s5cmd_sync |-> use_s5cmd_sync, quiet |-> quiet,
                           show_progress_bar |-> show_progress_bar, layout |-> layout,
                           total_size |-> SumSizes(helper),
                           list_of_directories |-> PlanDirectories(layout),
                           s5cmd_sync_helper_df |-> helper]
              /\ disk = present
              /\ temp_files = [NoTempFiles EXCEPT !.manifest_file =
                                  [created |-> TRUE, exists |-> TRUE,
                                   lines |-> [k \in 1..NumPlanSeries |-> helper[k].s5cmd_cmd]]]
    /\ r_pc = "call"
    /\ process = NoProcess
    /\ track = NoTrack
    /\ r_log = {}

\* mutant: the dry run is made whenever sync was asked for
Mut_dry_run_whenever_sync(use_s5cmd_sync, files) == use_s5cmd_sync

\* "if use_s5cmd_sync and len(os.listdir(downloadDir)) != 0:"
RunsDryRun(use_s5cmd_sync, files) == use_s5cmd_sync /\ DirNotEmpty(files)

\* _s5cmd_run up to the loop that tracks the transfer
S5cmdRun ==
    /\ r_pc = "call"
    /\ IF RunsDryRun(r_args.use_s5cmd_sync, disk)
       THEN \E answered \in BOOLEAN :
               LET stdout == IF answered THEN DryRunLines(temp_files.manifest_file.lines, disk)
                             ELSE <<>>
               IN  IF stdout # <<>>
                   THEN LET parsed == ParseS5cmdSyncOutput(stdout, r_args.s5cmd_sync_helper_df)
                        IN  /\ temp_files' = [temp_files EXCEPT
                                                 !.synced_manifest = parsed.synced_manifest]
                            /\ process' = Popen("synced_manifest",
                                                parsed.synced_manifest.lines, disk)
                            /\ track' = TrackStart(
                                   IF parsed.sync_size < r_args.total_size
                                   THEN parsed.sync_size ELSE r_args.total_size,
                                   r_args.show_progress_bar, parsed.list_of_directories, disk)
                            /\ r_log' = r_log \cup {"dry run output is not empty"}
                            /\ r_pc' = "tracking"
                   ELSE /\ r_log' = r_log \cup {"all requested files are already present"}
                        /\ r_pc' = "done"
                        /\ UNCHANGED <<temp_files, process, track>>
       ELSE /\ temp_files' = [temp_files EXCEPT !.stderr_log_file =
                                 [created |-> TRUE, exists |-> TRUE, lines |-> <<>>]]
            /\ process' = Popen("manifest_file", temp_files.manifest_file.lines, disk)
            /\ track' = TrackStart(r_args.total_size, r_args.show_progress_bar,
                                   r_args.list_of_directories, disk)
            /\ r_log' = r_log \cup {"not using s5cmd sync"}
            /\ r_pc' = "tracking"
    /\ UNCHANGED <<r_args, disk, selVars, tplVars, manVars, dlVars, cliVars, fetchVars, frameVars, dirVars>>

\* s5cmd copies the next file of its commands, or fails on it and writes
\* a line that starts with ERROR to its stderr
S5cmdCopies ==
    /\ process.state = "running"
    /\ process.todo # <<>>
    /\ \/ /\ disk' = disk \cup {Head(process.todo)}
          /\ process' = [process EXCEPT !.todo = Tail(process.todo),
                                        !.copied = process.copied + 1]
          /\ UNCHANGED temp_files
       \/ /\ process.errors < MaxErrors
          /\ process' = [process EXCEPT !.todo = Tail(process.todo),
                                        !.errors = process.errors + 1]
          /\ temp_files' =
                IF process.manifest = "manifest_file"
                THEN [temp_files EXCEPT !.stderr_log_file.lines =
                         Append(temp_files.stderr_log_file.lines,
                                <<"ERROR", " ">> \o Head(process.todo).name)]
                ELSE temp_files
          /\ UNCHANGED disk
    /\ UNCHANGED <<r_args, r_pc, track, r_log, selVars, tplVars, manVars, dlVars, cliVars, fetchVars, frameVars, dirVars>>

\* s5cmd ends: exit code 1 when a command failed, 0 otherwise
S5cmdExits ==
    /\ process.state = "running"
    /\ process.todo = <<>>
    /\ process' = [process EXCEPT !.state = "exited",
                                  !.returncode = IF process.errors > 0 THEN 1 ELSE 0]
    /\ UNCHANGED <<r_args, disk, temp_files, r_pc, track, r_log, selVars, tplVars, manVars, dlVars, cliVars, fetchVars, frameVars, dirVars>>

\* what _s5cmd_run does once the tracking has returned
RunLogAfterTransfer(log, lines, quiet, returncode) ==
    LET runtime_errors == SelectSeq(lines, LAMBDA line : line # <<>> /\ line[1] = "ERROR")
    IN  log \cup (IF ~quiet /\ lines # <<>> THEN {"stderr line"} ELSE {})
            \cup (IF Len(runtime_errors) > 0 THEN {"download process failed with errors"} ELSE {})
            \cup (IF returncode # 0 THEN {"non-zero exit code"}
                  ELSE {"successfully downloaded files"})

\* mutant: the loop never sees the process end
Mut_poll_is_always_none(p) == FALSE

\* process.poll() is not None
ProcessEnded(p) == p.state = "exited"

\* one pass of the loop of _track_download_progress and, when the process
\* has ended, the rest of _s5cmd_run
Poll ==
    /\ r_pc = "tracking"
    /\ track' = IF r_args.show_progress_bar
                THEN [track EXCEPT !.polled = TRUE, !.pbar_n = PbarN(track, disk)]
                ELSE track
    /\ IF ProcessEnded(process)
       THEN /\ r_pc' = "done"
            /\ IF process.manifest = "manifest_file"
               THEN /\ r_log' = RunLogAfterTransfer(r_log, temp_files.stderr_log_file.lines,
                                                    r_args.quiet, process.returncode)
                    /\ temp_files' = [temp_files EXCEPT !.stderr_log_file.exists = FALSE]
               ELSE UNCHANGED <<r_log, temp_files>>
       ELSE UNCHANGED <<r_pc, r_log, temp_files>>
    /\ UNCHANGED <<r_args, disk, process, selVars, tplVars, manVars, dlVars, cliVars, fetchVars, frameVars, dirVars>>

NextRun == S5cmdRun \/ S5cmdCopies \/ S5cmdExits \/ Poll

SpecRun == InitRun /\ [][NextRun]_vars

\* the loop of _track_download_progress sleeps half a second and goes on:
\* the pass that follows is always taken
SpecRunLive == SpecRun /\ WF_vars(Poll)

----------------------------------------------------------------------------
\* download_from_selection and download_from_manifest as whole calls: the
\* plan, then _s5cmd_run on the plan

\* the files a plan copies when nothing lies at its destinations
AllPlanFiles(commands) == FilesToCopy(commands, {})

\* what os.listdir(downloadDir) finds when the call is made: nothing, a file
\* no plan copies, or the first files of the plan
DisksAtCall(dir_not_empty, commands) ==
    IF ~dir_not_empty THEN {{}}
    ELSE {{OtherFile}}
         \cup {{AllPlanFiles(commands)[i] : i \in 1..n} : n \in 1..Len(AllPlanFiles(commands))}

LayoutOf(tpl) == IF tpl.none THEN "none" ELSE IF tpl.s = <<>> THEN "empty" ELSE "tree"

\* result_df[["index_crdc_series_uuid", "s5cmd_cmd", "series_size_MB", "path"]]
HelperOf(rows, commands) ==
    [i \in 1..Len(rows) |->
        [index_crdc_series_uuid |-> rows[i].index_crdc_series_uuid,
         s5cmd_cmd |-> commands[i],
         series_size_MB |-> rows[i].series_size_MB,
         path |-> rows[i].path]]

\* the manifests of one line, and one of two lines that names two endpoints
CallManifests ==
    {m \in Manifests : Len(m) = 1}
    \cup {<<CopyCommand(AwsBucket, Id("uuid", 1)), CopyCommand(GcsBucket, Id("uuid", 1))>>}

\* a client about to make one call: a selection with one filter is to be
\* downloaded, or a manifest
InitCall ==
    /\ RunIdle /\ ClientIdle /\ FetchIdle /\ FramesIdle /\ DirIdle /\ SelectionIdle /\ TemplateIdle
    /\ index = CurrentIndex
    /\ previous_versions_index = PriorVersionsIndex
    /\ sm_instance_index \in {[installed |-> FALSE, df |-> {}],
                              [installed |-> TRUE, df |-> InstanceIndex]}
    /\ \/ /\ d_sel \in {s \in DownloadSelections :
                           Cardinality({c \in Columns : s[c] # None}) = 1}
          /\ manifest_df = <<>>
       \/ /\ d_sel = NoSelection
          /\ manifest_df \in CallManifests
    /\ d_args = NoDownloadArgs
    /\ d_outcome = "idle"
    /\ d_result = NoPlan
    /\ m_args = NoArgs
    /\ m_outcome = "idle"
    /\ m_result = NoResult

\* download_from_selection up to its call of _s5cmd_run
PlanFromSelection ==
    /\ manifest_df = <<>>
    /\ DownloadFromSelection

\* download_from_manifest up to its call of _s5cmd_run
PlanFromManifest ==
    /\ manifest_df # <<>>
    /\ ValidateUpdateManifest

\* download_from_selection calls _s5cmd_run
RunFromSelection ==
    /\ d_outcome = "s5cmd_run"
    /\ r_pc = "idle"
    /\ \E quiet \in BOOLEAN, show_progress_bar \in BOOLEAN,
          files \in DisksAtCall(d_args.dir_not_empty, d_result.temp_manifest_file.commands) :
          /\ r_args' = [use_s5cmd_sync |-> d_result.use_s5cmd_sync, quiet |-> quiet,
                        show_progress_bar |-> show_progress_bar,
                        layout |-> LayoutOf(d_args.dirTemplate),
                        total_size |-> d_result.total_size,
                        list_of_directories |-> d_result.list_of_directories,
                        s5cmd_sync_helper_df |->
                            IF Truthy(d_sel.SOPInstanceUID) THEN <<>>
                            ELSE HelperOf(d_result.rows, d_result.temp_manifest_file.commands)]
          /\ disk' = files
    /\ temp_files' = [NoTempFiles EXCEPT !.manifest_file =
                         [created |-> TRUE, exists |-> TRUE,
                          lines |-> d_result.temp_manifest_file.commands]]
    /\ r_pc' = "call"
    /\ UNCHANGED <<process, track, r_log, selVars, tplVars, manVars, dlVars, cliVars, fetchVars, frameVars, dirVars>>

\* download_from_manifest calls _s5cmd_run
RunFromManifest ==
    /\ m_outcome = "returned"
    /\ r_pc = "idle"
    /\ \E quiet \in BOOLEAN, show_progress_bar \in BOOLEAN,
          files \in DisksAtCall(m_args.dir_not_empty, m_result.temp_manifest_file.commands) :
          /\ r_args' = [use_s5cmd_sync |-> m_args.use_s5cmd_sync, quiet |-> quiet,
                        show_progress_bar |-> show_progress_bar,
                        layout |-> LayoutOf(m_args.dirTemplate),
                        total_size |-> m_result.total_size,
                        list_of_directories |-> m_result.list_of_directories,
                        s5cmd_sync_helper_df |->
                            HelperOf(m_result.merged_df, m_result.temp_manifest_file.commands)]
          /\ disk' = files
    /\ temp_files' = [NoTempFiles EXCEPT !.manifest_file =
                         [created |-> TRUE, exists |-> TRUE,
                          lines |-> m_result.temp_manifest_file.commands]]
    /\ r_pc' = "call"
    /\ UNCHANGED <<process, track, r_log, selVars, tplVars, manVars, dlVars, cliVars, fetchVars, frameVars, dirVars>>

NextCall ==
    \/ PlanFromSelection
    \/ PlanFromManifest
    \/ RunFromSelection
    \/ RunFromManifest
    \/ NextRun

SpecCall == InitCall /\ [][NextCall]_vars

----------------------------------------------------------------------------
\* IDCClient.client(): the singleton held by the class attribute _client

\* IDCClient(): a new object, distinct from every object constructed before
NewInstance(n) == n + 1

Mut_client_always_constructs(attr, n) ==
    [attr |-> NewInstance(n), constructed |-> n + 1, returned |-> NewInstance(n)]

\* client(): the attribute is set on first use, then returned
client(attr, n) ==
    IF attr = NoClient
    THEN [attr |-> NewInstance(n), constructed |-> n + 1, returned |-> NewInstance(n)]
    ELSE [attr |-> attr, constructed |-> n, returned |-> attr]

InitClient ==
    /\ ClientIdle
    /\ SelectionIdle /\ TemplateIdle /\ ManifestIdle /\ DownloadIdle /\ RunIdle /\ FetchIdle /\ FramesIdle /\ DirIdle

ClientCall ==
    /\ Len(calls) < MaxCalls
    /\ LET r == client(_client, constructed)
       IN  /\ _client' = r.attr
           /\ constructed' = r.constructed
           /\ calls' = Append(calls, [op |-> "client", returned |-> r.returned])
    /\ UNCHANGED <<selVars, tplVars, manVars, dlVars, runVars, fetchVars, frameVars, dirVars>>

Construct ==
    /\ Len(calls) < MaxCalls
    /\ constructed' = constructed + 1
    /\ calls' = Append(calls, [op |-> "IDCClient", returned |-> NewInstance(constructed)])
    /\ UNCHANGED <<_client, selVars, tplVars, manVars, dlVars, runVars, fetchVars, frameVars, dirVars>>

NextClient == ClientCall \/ Construct

SpecClient == InitClient /\ [][NextClient]_vars

----------------------------------------------------------------------------
\* fetch_index: the indices a client knows, the ones it marks installed, and
\* the tables set as attributes of the class

\* the two indices read by __init__, attributes of every instance
LoadedNames == {"index", "previous_versions_index"}

\* the indices that fetch_index downloads
AuxNames == {"sm_index", "sm_instance_index", "clinical_index"}

\* the keys of indices_overview
KnownNames == LoadedNames \cup AuxNames

\* the names a caller passes: the known ones and one that is no key
FetchNames == KnownNames \cup {"no_such_index"}

Clients == 1..NumClients

\* what requests.get does: a response with a status code, or an exception
\* when the server is not reached within the timeout
Responses ==
    {[kind |-> "response", status_code |-> 200],
     [kind |-> "response", status_code |-> 404],
     [kind |-> "ConnectionError", status_code |-> 0]}

\* self.indices_overview after __init__
InitialOverview == [n \in KnownNames |-> [installed |-> n \in LoadedNames]]

\* the class has no attribute of that name
NoTable == 0

\* the table read from the parquet file a response holds
TableOf(name) == 1

\* hasattr(self, name): an attribute of the instance or of its class
HasAttr(cls, name) ==
    \/ name \in LoadedNames
    \/ (name \in AuxNames /\ cls[name] # NoTable)

\* fetch_index(self, index): overview is self.indices_overview, cls the
\* attributes of the class
fetch_index(overview, cls, name, response) ==
    IF name \notin DOMAIN overview
    THEN [overview |-> overview, cls |-> cls, outcome |-> "returned", log |-> "not available"]
    ELSE IF overview[name].installed
    THEN [overview |-> overview, cls |-> cls, outcome |-> "returned", log |-> "already installed"]
    ELSE IF response.kind # "response"
    THEN [overview |-> overview, cls |-> cls, outcome |-> response.kind, log |-> ""]
    ELSE IF response.status_code = 200
    THEN [overview |-> [overview EXCEPT ![name].installed = TRUE],
          cls |-> [cls EXCEPT ![name] = TableOf(name)],
          outcome |-> "returned", log |-> ""]
    ELSE [overview |-> overview, cls |-> cls, outcome |-> "returned", log |-> "failed to fetch"]

InitFetch ==
    /\ indices_overview = [c \in Clients |-> InitialOverview]
    /\ cls_tables = [n \in AuxNames |-> NoTable]
    /\ f_last = NoFetch
    /\ SelectionIdle /\ TemplateIdle /\ ManifestIdle /\ DownloadIdle /\ RunIdle /\ ClientIdle /\ FramesIdle /\ DirIdle

\* a client calls fetch_index with any name; requests.get answers in any way
FetchIndex ==
    /\ \E c \in Clients, name \in FetchNames, response \in Responses :
          LET r == fetch_index(indices_overview[c], cls_tables, name, response)
          IN  /\ indices_overview' = [indices_overview EXCEPT ![c] = r.overview]
              /\ cls_tables' = r.cls
              /\ f_last' = [client |-> c, index |-> name, response |-> response,
                            was_installed |-> (name \in KnownNames
                                               /\ indices_overview[c][name].installed),
                            outcome |-> r.outcome, log |-> r.log]
    /\ UNCHANGED <<selVars, tplVars, manVars, dlVars, runVars, cliVars, frameVars, dirVars>>

NextFetch == FetchIndex

SpecFetch == InitFetch /\ [][NextFetch]_vars

----------------------------------------------------------------------------
\* The data frames of a client and the operations that read them. A frame
\* is an object; a statement of an operation binds a local name to an
\* object (the same one, or a new one) or assigns a column of an object.

\* the objects that outlive an operation: self.index,
\* self.previous_versions_index, and the instance index of the class
IndexObj == 1

PriorObj == 2

InstanceObj == 3

\* the first object an operation creates
FirstFresh == 4

\* objects one operation creates at most
MaxFresh == 8

Objects == 1..(FirstFresh + MaxFresh - 1)

\* a statement: what it does, the local name it binds or writes, the
\* names it reads, the column it assigns
St(op, dst, src, col) == [op |-> op, dst |-> dst, src |-> src, col |-> col]

\* x = y
Alias(dst, src) == St("alias", dst, src, "")

\* x = y[[columns]], y.rename(...), y.drop_duplicates(), pd.concat([...]),
\* pd.read_csv(...), duckdb.query(sql).df(): a new object
New(dst, src) == St("new", dst, src, "")

\* x = IDCClient._filter_dataframe_by_id(key, y, id)
Filter(dst, src) == St("filter", dst, src, "")

\* x[column] = ..., x.columns = [...]
SetCol(dst, col) == St("setcol", dst, "", col)

\* x[column].unique(), x[column].sum(), x.to_dict(), "\n".join(x[column])
Read(src) == St("read", "", src, "")

ProgramNames ==
    {"get_patients", "get_patients_list", "get_dicom_studies", "get_dicom_series",
     "get_dicom_series_list", "validate_manifest", "download_by_uuid",
     "download_by_instance", "download_from_selection", "parse_sync_output",
     "citations_from_manifest", "citations_from_selection", "sql_query"}

\* the statements of an operation that bind, read or write a data frame
Program(name) ==
    CASE name = "get_patients" ->
            << Filter("patient_df", "self.index"), New("patient_df", "patient_df"),
               Read("patient_df") >>
      [] name = "get_patients_list" ->
            << Filter("patient_df", "self.index"), Read("patient_df") >>
      [] name = "get_dicom_studies" ->
            << Filter("studies_df", "self.index"), New("studies_df", "studies_df"),
               Read("studies_df") >>
      [] name = "get_dicom_series" ->
            << Filter("series_df", "self.index"), New("series_df", "series_df"),
               SetCol("series_df", "ImageCount"), New("series_df", "series_df"),
               New("series_df", "series_df"), Read("series_df") >>
      [] name = "get_dicom_series_list" ->
            << Filter("series_df", "self.index"), Read("series_df") >>
      [] name = "validate_manifest" ->
            << New("manifest_df", ""), SetCol("manifest_df", "manifest_cp_cmd"),
               New("index_df_copy", "self.index"),
               New("previous_versions_index_df_copy", "self.previous_versions_index"),
               New("merged_df", "index_df_copy"),
               New("merged_df", "previous_versions_index_df_copy"),
               SetCol("merged_df", "s5cmd_cmd"), Read("merged_df") >>
      [] name = "download_by_uuid" ->
            << New("download_df", "self.index"), Filter("result_df", "download_df"),
               Read("result_df"), New("result_df", "self.index"),
               SetCol("result_df", "s5cmd_cmd"), New("s5cmd_sync_helper_df", "result_df") >>
      [] name = "download_by_instance" ->
            << Alias("download_df", "self.sm_instance_index"),
               Filter("result_df", "download_df"), Read("result_df"),
               New("result_df", "self.index"), SetCol("result_df", "path"),
               SetCol("result_df", "instance_aws_url"), SetCol("result_df", "s5cmd_cmd") >>
      [] name = "download_from_selection" ->
            << Alias("download_df", "self.index"), Filter("result_df", "download_df"),
               Read("result_df"), New("result_df", "self.index"),
               SetCol("result_df", "s5cmd_cmd"), New("s5cmd_sync_helper_df", "result_df") >>
      [] name = "parse_sync_output" ->
            << New("s5cmd_sync_helper_df", ""), New("stdout_df", ""),
               Alias("index_df_copy", "self.index"),
               Alias("result_df", "s5cmd_sync_helper_df"),
               New("synced_df", "result_df"), Read("synced_df") >>
      [] name = "citations_from_manifest" ->
            << New("manifest_df", ""), SetCol("manifest_df", "crdc_series_uuid"),
               New("index_copy", "self.index"), SetCol("index_copy", "crdc_series_uuid"),
               New("result_df", "index_copy"), Filter("result_df", "self.index"),
               Read("result_df") >>
      [] name = "citations_from_selection" ->
            << Filter("result_df", "self.index"), Read("result_df") >>
      [] OTHER ->
            << Alias("index", "self.index"), New("result", "index") >>

Attributes == {"self.index", "self.previous_versions_index", "self.sm_instance_index"}

LocalNames ==
    {"patient_df", "studies_df", "series_df", "manifest_df", "index_df_copy",
     "previous_versions_index_df_copy", "merged_df", "download_df", "result_df",
     "s5cmd_sync_helper_df", "stdout_df", "synced_df", "index_copy", "index", "result"}

\* no object
Unbound == 0

\* the names of an operation when it starts
FreshEnv ==
    [n \in Attributes \cup LocalNames |->
        CASE n = "self.index" -> IndexObj
          [] n = "self.previous_versions_index" -> PriorObj
          [] n = "self.sm_instance_index" -> InstanceObj
          [] OTHER -> Unbound]

\* no column of any object has been assigned
NothingWritten == [o \in Objects |-> {}]

\* mutant: no statement creates an object, every name is bound to the
\* object it was computed from
Mut_bound_to_the_source(st, env, fresh) == IF st.src = "" THEN fresh ELSE env[st.src]

\* dataframe[dataframe[key].isin(values)].copy(): the object returned
FilterObject(source, fresh) == fresh

\* the object a statement binds its name to
Bound(st, env, fresh) ==
    CASE st.op = "alias" -> env[st.src]
      [] st.op = "filter" -> FilterObject(env[st.src], fresh)
      [] OTHER -> fresh

InitFrames ==
    /\ q_pc = [name |-> "", i |-> 0]
    /\ q_env = FreshEnv
    /\ written = NothingWritten
    /\ q_next = FirstFresh
    /\ q_done = 0
    /\ SelectionIdle /\ TemplateIdle /\ ManifestIdle /\ DownloadIdle /\ RunIdle /\ ClientIdle
    /\ FetchIdle /\ DirIdle

\* the client starts an operation
FrameCall ==
    /\ q_pc.name = ""
    /\ q_done < MaxOps
    /\ \E name \in ProgramNames : q_pc' = [name |-> name, i |-> 1]
    /\ UNCHANGED <<q_env, written, q_next, q_done>>
    /\ UNCHANGED <<selVars, tplVars, manVars, dlVars, runVars, cliVars, fetchVars, dirVars>>

\* the operation returns: its local names and the objects it created are
\* dropped
FrameReturn(done) ==
    /\ q_pc' = [name |-> "", i |-> 0]
    /\ q_env' = FreshEnv
    /\ written' = [o \in Objects |-> IF o < FirstFresh THEN done[o] ELSE {}]
    /\ q_next' = FirstFresh
    /\ q_done' = q_done + 1

\* the operation runs its next statement
FrameStep ==
    /\ q_pc.name # ""
    /\ q_pc.i <= Len(Program(q_pc.name))
    /\ LET st == Program(q_pc.name)[q_pc.i]
       IN  /\ q_env' = IF st.op \in {"alias", "new", "filter"}
                       THEN [q_env EXCEPT ![st.dst] = Bound(st, q_env, q_next)]
                       ELSE q_env
           /\ q_next' = IF st.op \in {"new", "filter"} THEN q_next + 1 ELSE q_next
           /\ written' = IF st.op = "setcol"
                         THEN [written EXCEPT ![q_env[st.dst]] = @ \cup {st.col}]
                         ELSE written
           /\ q_pc' = [q_pc EXCEPT !.i = q_pc.i + 1]
    /\ UNCHANGED q_done
    /\ UNCHANGED <<selVars, tplVars, manVars, dlVars, runVars, cliVars, fetchVars, dirVars>>

\* the last statement has run, or the filter found no row and raised
FrameEnd ==
    /\ q_pc.name # ""
    /\ \/ q_pc.i > Len(Program(q_pc.name))
       \/ /\ q_pc.i <= Len(Program(q_pc.name))
          /\ Program(q_pc.name)[q_pc.i].op = "filter"
    /\ FrameReturn(written)
    /\ UNCHANGED <<selVars, tplVars, manVars, dlVars, runVars, cliVars, fetchVars, dirVars>>

NextFrames == FrameCall \/ FrameStep \/ FrameEnd

SpecFrames == InitFrames /\ [][NextFrames]_vars

----------------------------------------------------------------------------
\* _get_dir_sum_file_size on a watched directory while s5cmd works in it

\* the names an entry of the directory may bear
EntryNames == {Id("entry", k) : k \in 1..NumNames}

\* st_size of a file and of a directory
EntryBytes(kind) == IF kind = "file" THEN FileBytes ELSE 4 * 1024

\* Path.is_file(): False when nothing bears the name
IsFile(dir, name) == dir[name] = "file"

\* Path.stat(): the size, or FileNotFoundError when nothing bears the name
Stat(dir, name) ==
    IF dir[name] = "absent" THEN [raised |-> "FileNotFoundError", st_size |-> 0]
    ELSE [raised |-> "", st_size |-> EntryBytes(dir[name])]

\* mutant: no exception of stat() is caught
Mut_nothing_caught(exception) == FALSE

\* "except FileNotFoundError:"
ExceptClause(exception) == exception = "FileNotFoundError"

InitDir ==
    /\ SelectionIdle /\ TemplateIdle /\ ManifestIdle /\ DownloadIdle /\ RunIdle /\ ClientIdle
    /\ FetchIdle /\ FramesIdle
    /\ entries \in [EntryNames -> {"absent", "file"}]
    /\ sum_call = NoSumCall
    /\ tool_steps = 0

\* s5cmd creates a file
ToolCreates ==
    /\ tool_steps < MaxToolSteps
    /\ \E n \in EntryNames :
          /\ entries[n] = "absent"
          /\ entries' = [entries EXCEPT ![n] = "file"]
    /\ tool_steps' = tool_steps + 1
    /\ UNCHANGED <<sum_call, selVars, tplVars, manVars, dlVars, runVars, cliVars, fetchVars, frameVars>>

\* s5cmd creates a directory
ToolMakesDirectory ==
    /\ tool_steps < MaxToolSteps
    /\ \E n \in EntryNames :
          /\ entries[n] = "absent"
          /\ entries' = [entries EXCEPT ![n] = "dir"]
    /\ tool_steps' = tool_steps + 1
    /\ UNCHANGED <<sum_call, selVars, tplVars, manVars, dlVars, runVars, cliVars, fetchVars, frameVars>>

\* s5cmd renames a file or a directory; a file may take the place of a file
ToolRenames ==
    /\ tool_steps < MaxToolSteps
    /\ \E a \in EntryNames, b \in EntryNames :
          /\ a # b
          /\ entries[a] # "absent"
          /\ entries[b] = "absent" \/ (entries[a] = "file" /\ entries[b] = "file")
          /\ entries' = [entries EXCEPT ![a] = "absent", ![b] = entries[a]]
    /\ tool_steps' = tool_steps + 1
    /\ UNCHANGED <<sum_call, selVars, tplVars, manVars, dlVars, runVars, cliVars, fetchVars, frameVars>>

\* s5cmd removes a file or a directory
ToolRemoves ==
    /\ tool_steps < MaxToolSteps
    /\ \E n \in EntryNames :
          /\ entries[n] # "absent"
          /\ entries' = [entries EXCEPT ![n] = "absent"]
    /\ tool_steps' = tool_steps + 1
    /\ UNCHANGED <<sum_call, selVars, tplVars, manVars, dlVars, runVars, cliVars, fetchVars, frameVars>>

\* "if path.exists() and path.is_dir(): for f in path.iterdir():" the
\* watched directory is listed
GetDirSumLists ==
    /\ sum_call.pc \in {"idle", "returned"}
    /\ sum_call.calls < MaxSumCalls
    /\ sum_call' = [NoSumCall EXCEPT
                       !.pc = "is_file",
                       !.listed = SeqOfSet({n \in EntryNames : entries[n] # "absent"}),
                       !.i = 1,
                       !.calls = sum_call.calls]
    /\ UNCHANGED <<entries, tool_steps, selVars, tplVars, manVars, dlVars, runVars, cliVars, fetchVars, frameVars>>

\* "if f.is_file():"
GetDirSumIsFile ==
    /\ sum_call.pc = "is_file"
    /\ sum_call.i <= Len(sum_call.listed)
    /\ LET name == sum_call.listed[sum_call.i]
       IN  IF IsFile(entries, name)
           THEN sum_call' = [sum_call EXCEPT !.pc = "stat"]
           ELSE sum_call' = [sum_call EXCEPT
                                !.i = sum_call.i + 1,
                                !.added = Append(sum_call.added, 0),
                                !.gone = IF entries[name] = "absent"
                                         THEN sum_call.gone \cup {sum_call.i}
                                         ELSE sum_call.gone]
    /\ UNCHANGED <<entries, tool_steps, selVars, tplVars, manVars, dlVars, runVars, cliVars, fetchVars, frameVars>>

\* "try: sum_file_size += f.stat().st_size except FileNotFoundError: pass"
GetDirSumStat ==
    /\ sum_call.pc = "stat"
    /\ LET name == sum_call.listed[sum_call.i]
           st == Stat(entries, name)
       IN  IF st.raised = ""
           THEN sum_call' = [sum_call EXCEPT
                                !.pc = "is_file",
                                !.i = sum_call.i + 1,
                                !.sum_file_size = sum_call.sum_file_size + st.st_size,
                                !.added = Append(sum_call.added, st.st_size)]
           ELSE IF ExceptClause(st.raised)
           THEN sum_call' = [sum_call EXCEPT
                                !.pc = "is_file",
                                !.i = sum_call.i + 1,
                                !.added = Append(sum_call.added, 0),
                                !.gone = sum_call.gone \cup {sum_call.i},
                                !.caught = sum_call.caught + 1]
           ELSE sum_call' = [sum_call EXCEPT !.pc = "raised", !.raised = st.raised]
    /\ UNCHANGED <<entries, tool_steps, selVars, tplVars, manVars, dlVars, runVars, cliVars, fetchVars, frameVars>>

\* "return sum_file_size"
GetDirSumReturns ==
    /\ sum_call.pc = "is_file"
    /\ sum_call.i > Len(sum_call.listed)
    /\ sum_call' = [sum_call EXCEPT !.pc = "returned", !.calls = sum_call.calls + 1]
    /\ UNCHANGED <<entries, tool_steps, selVars, tplVars, manVars, dlVars, runVars, cliVars, fetchVars, frameVars>>

NextDir ==
    \/ ToolCreates
    \/ ToolMakesDirectory
    \/ ToolRenames
    \/ ToolRemoves
    \/ GetDirSumLists
    \/ GetDirSumIsFile
    \/ GetDirSumStat
    \/ GetDirSumReturns

SpecDir == InitDir /\ [][NextDir]_vars

----------------------------------------------------------------------------
\* Selection specification: an index is loaded, then the filter is called
\* with any selection, any number of times.

InitSel ==
    /\ RunIdle
    /\ ClientIdle
    /\ FetchIdle
    /\ FramesIdle /\ DirIdle
    /\ \E n \in 1..MaxRows : df_index = {IndexRow(i) : i \in 1..n}
    /\ sel = NoSelection
    /\ outcome = "idle"
    /\ result_df = {}
    /\ err = [key |-> "", values |-> {}]
    /\ TemplateIdle
    /\ ManifestIdle
    /\ DownloadIdle

SafeFilterBySelection ==
    /\ outcome = "idle"
    /\ \E C \in SuppliedSets : \E s \in Selections(C) :
        LET r == FilterBySelection(df_index, s)
        IN  /\ sel' = s
            /\ outcome' = r.kind
            /\ result_df' = r.df
            /\ err' = IF r.kind \in {"ValueError", "TypeError"}
                      THEN [key |-> r.key, values |-> r.values]
                      ELSE [key |-> "", values |-> {}]
            /\ UNCHANGED <<df_index, tplVars, manVars, dlVars, runVars, cliVars, fetchVars, frameVars, dirVars>>

\* the caller drops the result; the client is ready for the next call
SelectionDone ==
    /\ outcome # "idle"
    /\ sel' = NoSelection
    /\ outcome' = "idle"
    /\ result_df' = {}
    /\ err' = [key |-> "", values |-> {}]
    /\ UNCHANGED <<df_index, tplVars, manVars, dlVars, runVars, cliVars, fetchVars, frameVars, dirVars>>

NextSel == SafeFilterBySelection \/ SelectionDone

SpecSel == InitSel /\ [][NextSel]_vars

----------------------------------------------------------------------------
\* Vocabulary of the selection claims

\* the documented order, most specific first
Priority ==
    <<"crdc_series_uuid", "SOPInstanceUID", "SeriesInstanceUID",
      "StudyInstanceUID", "PatientID", "collection_id">>

Rank(c) == CHOOSE i \in 1..Len(Priority) : Priority[i] = c

\* the most specific supplied column of a selection that supplies one
MostSpecific(s) ==
    CHOOSE c \in Supplied(s) : \A d \in Supplied(s) : Rank(c) <= Rank(d)

WellTyped(s) == \A c \in Supplied(s) : IsStrOrList(s[c])

RowsMatching(df, c, s) == {r \in df : r[c] \in s[c].vals}

Called == outcome # "idle"

\* The ancestors of a column in the documented hierarchy
\* crdc_series_uuid -> SeriesInstanceUID -> StudyInstanceUID -> PatientID
\* -> collection_id; an instance belongs to one series.
Ancestors(c) ==
    IF c \in {"crdc_series_uuid", "SOPInstanceUID"}
    THEN {"SeriesInstanceUID", "StudyInstanceUID", "PatientID", "collection_id"}
    ELSE {d \in Columns : Rank(d) > Rank(c)}

\* s supplies a child and, beside it, only ancestors of the rows the child
\* selects (every selected row carries a supplied ancestor value, and every
\* supplied ancestor value is the ancestor of a selected row)
ChildWithOwnAncestors(df, s) ==
    /\ Supplied(s) # {}
    /\ WellTyped(s)
    /\ LET child == MostSpecific(s)
           rows == RowsMatching(df, child, s)
       IN  /\ rows # {}
           /\ s[child].vals \subseteq {r[child] : r \in df}
           /\ \A a \in Supplied(s) \ {child} :
                /\ a \in Ancestors(child)
                /\ s[a].vals = {r[a] : r \in rows}

ChildAlone(s) ==
    [c \in Columns |-> IF c = MostSpecific(s) THEN s[c] ELSE None]

C2_ChildPlusAncestorsSameRows ==
    (Called /\ Hierarchy(df_index) /\ ChildWithOwnAncestors(df_index, sel)) =>
        /\ outcome = "df"
        /\ FilterBySelection(df_index, ChildAlone(sel)).kind = "df"
        /\ result_df = FilterBySelection(df_index, ChildAlone(sel)).df

\* C2 witness: a child is selected together with an ancestor that has other
\* children in the index.
C2_Witness ==
    /\ Called
    /\ ChildWithOwnAncestors(df_index, sel)
    /\ \E a \in Supplied(sel) \ {MostSpecific(sel)} :
         RowsMatching(df_index, a, sel) # result_df

FiltersAgree(df, s) ==
    \A r \in RowsMatching(df, MostSpecific(s), s) :
        \A c \in Supplied(s) : r[c] \in s[c].vals

NoneOccurs(df, s, c) ==
    /\ s[c].vals # {}
    /\ \A v \in s[c].vals : v \notin {r[c] : r \in df}

----------------------------------------------------------------------------
\* Vocabulary of the download claims

DownloadCalled == d_outcome # "idle"

\* the series whose files the file of commands copies
PlannedUrls ==
    {d_result.rows[i].url : i \in 1..Len(d_result.rows)}

\* C5: a download with no filter (every identifier None) that is neither a
\* dry run nor short of disk space hands _s5cmd_run a file of commands that
\* covers every series of the index.
C5_Original_NoFilterDownloadsEverything ==
    (/\ DownloadCalled
     /\ d_sel = NoSelection
     /\ ~d_args.dry_run
     /\ d_args.disk_free_space_MB = EnoughSpace
     /\ Hierarchy_Of(d_args.dirTemplate).kind = "ok") =>
        /\ d_outcome = "s5cmd_run"
        /\ Len(d_result.temp_manifest_file.commands) = Cardinality(index)
        /\ PlannedUrls = {r.series_aws_url : r \in index}

\* the directory a path names: separators at its end do not count
RECURSIVE DirectoryOf(_)
DirectoryOf(path) ==
    IF path # <<>> /\ path[Len(path)] = "/" THEN DirectoryOf(SubSeq(path, 1, Len(path) - 1))
    ELSE path

\* the destination of a command: what stands between its double quotes
DestinationOf(cmd) ==
    LET first == CHOOSE i \in 1..Len(cmd) : cmd[i] = "\"" /\ \A j \in 1..(i - 1) : cmd[j] # "\""
    IN  SubSeq(cmd, first + 1, Len(cmd) - 1)

\* dirTemplate is None or the empty string
FlatTemplate(tpl) == tpl.none \/ tpl.s = <<>>

\* C11: with dirTemplate None or "", the destination of every command of
\* the file handed to _s5cmd_run is the download directory itself, and so
\* is every entry of list_of_directories, which is not empty when the file
\* holds a command.
C11_FlatTemplateDownloadsIntoBaseDirectory ==
    (d_outcome = "s5cmd_run" /\ FlatTemplate(d_args.dirTemplate)) =>
        /\ \A i \in 1..Len(d_result.temp_manifest_file.commands) :
              DirectoryOf(DestinationOf(d_result.temp_manifest_file.commands[i])) = downloadDir
        /\ \A i \in 1..Len(d_result.list_of_directories) :
              DirectoryOf(d_result.list_of_directories[i]) = downloadDir
        /\ (d_result.temp_manifest_file.commands # <<>> => d_result.list_of_directories # <<>>)

C11_Witness ==
    /\ d_outcome = "s5cmd_run"
    /\ ~d_args.dirTemplate.none
    /\ d_args.dirTemplate.s = <<>>
    /\ Len(d_result.temp_manifest_file.commands) >= 1
    /\ d_result.list_of_directories # <<>>

\* the size computed for the selection exceeds the free space of the disk
SpaceIsShort == DownloadCalled /\ d_result.total_size > d_args.disk_free_space_MB

\* C13: a download whose size exceeds the free space raises the
\* insufficient-disk-space error.
C13_Original_ShortSpaceRaises ==
    SpaceIsShort => d_outcome = "IDCClientInsufficientDiskSpaceError"

----------------------------------------------------------------------------
\* Vocabulary of the manifest claims

ManifestCalled == m_outcome # "idle"

\* dirTemplate is None or a template the hierarchy builder accepts
TemplateAccepted == Hierarchy_Of(m_args.dirTemplate).kind = "ok"

UuidsOf(df) == {RegexpExtractUuid(r.series_aws_url) : r \in df}

\* the copy command names a series of the prior versions only
PriorOnly(cmd) ==
    /\ RegexpExtractUuid(cmd) \notin UuidsOf(index)
    /\ RegexpExtractUuid(cmd) \in UuidsOf(previous_versions_index)

\* the copy command names a series of neither index
InNoIndex(cmd) ==
    RegexpExtractUuid(cmd) \notin UuidsOf(index) \cup UuidsOf(previous_versions_index)

HasPriorOnly == \E i \in 1..Len(manifest_df) : PriorOnly(manifest_df[i])

HasUnmatched == \E i \in 1..Len(manifest_df) : InNoIndex(manifest_df[i])

\* the file of commands was written with commands in it: a transfer follows
TransferPlanned == m_outcome = "returned" /\ m_result.temp_manifest_file.commands # <<>>

\* an error is raised and no file of commands exists
Rejected == m_outcome = "ValueError" /\ ~m_result.temp_manifest_file.created

\* the endpoint an entry of merged_df is classified for
EndpointOf(row) == IF row.endpoint = "aws" THEN aws_endpoint_url ELSE gcp_endpoint_url

Mixed == Cardinality(Endpoints(m_result.merged_df)) > 1

AllUnknown == m_result.merged_df # <<>> /\ Endpoints(m_result.merged_df) = {"unknown"}

\* C6: when some entry of the manifest names a series that only the prior
\* versions hold, the second join against current and prior versions is
\* run, every such entry ends matched with a size and a path, and with
\* validate_manifest=False the call does not raise.
C6_Original_PriorVersionEntriesResolve ==
    (ManifestCalled /\ TemplateAccepted /\ HasPriorOnly) =>
        /\ m_result.rejoined
        /\ \A i \in 1..Len(m_result.merged_df) :
              PriorOnly(m_result.merged_df[i].manifest_cp_cmd) =>
                  /\ m_result.merged_df[i].crdc_series_uuid_match
                  /\ m_result.merged_df[i].series_size_MB # NULL_SIZE
                  /\ m_result.merged_df[i].path # NULL
        /\ (~m_args.validate_manifest => m_outcome = "returned")

\* C7: with validate_manifest=True an entry that no index matches makes the
\* call raise an error that lists the unmatched lines, and no file of
\* commands is written; with validate_manifest=False the unmatched lines
\* are logged and the call returns.
C7_Original_StrictRejectsUnmatched ==
    (ManifestCalled /\ TemplateAccepted /\ HasUnmatched) =>
        /\ \E k \in 1..Len(m_result.log) :
              /\ m_result.log[k].level = "error"
              /\ m_result.log[k].lines = MissingCommands(m_result.merged_df)
        /\ (m_args.validate_manifest => Rejected /\ m_result.reason = "unmatched")
        /\ (~m_args.validate_manifest => m_outcome = "returned")

\* C8: a manifest of matched entries that are classified for both endpoints is
\* rejected whatever validate_manifest is, and a transfer that is planned
\* uses the endpoint every one of its entries is classified for.
C8_Original_MixedAlwaysRejected ==
    (ManifestCalled /\ TemplateAccepted /\ ~HasUnmatched) =>
        /\ (Mixed => Rejected)
        /\ (TransferPlanned =>
              \A i \in 1..Len(m_result.merged_df) :
                  EndpointOf(m_result.merged_df[i]) = m_result.endpoint_to_use)

\* C9: when every entry is matched and classified "unknown" the listing is run; a
\* listing that succeeds selects the GCP endpoint, and with
\* validate_manifest=True a listing that fails raises and no file of
\* commands is written.
C9_Original_FailedListingIsFatal ==
    (ManifestCalled /\ TemplateAccepted /\ ~HasUnmatched /\ AllUnknown
        /\ m_args.validate_manifest) =>
        /\ m_result.ls # <<>>
        /\ (m_result.ls[1].returncode = 0 =>
               m_result.endpoint_to_use = gcp_endpoint_url)
        /\ (m_result.ls[1].returncode # 0 => Rejected)

----------------------------------------------------------------------------
\* Vocabulary of the template claims

\* t starts with the string w
StartsWith(t, w) == Len(t) >= Len(w) /\ SubSeq(t, 1, Len(w)) = w

WhitelistedWords ==
    {<<"%">> \o valid_attributes[i] : i \in 1..Len(valid_attributes)}
    \cup {valid_separators[i] : i \in 1..Len(valid_separators)}

\* t is a concatenation of whitelisted tokens and separators
RECURSIVE IsWhitelistedConcat(_)
IsWhitelistedConcat(t) ==
    \/ t = <<>>
    \/ \E w \in WhitelistedWords :
         StartsWith(t, w) /\ IsWhitelistedConcat(SubSeq(t, Len(w) + 1, Len(t)))

Atoms(s) == {s[i] : i \in 1..Len(s)}

\* C10 as stated: every template that is not a concatenation of whitelisted
\* tokens and separators is rejected, so an accepted template is fully
\* consumed by the token substitution and the resulting path expression
\* holds no leftover '%'.
C10_Original_OnlyWhitelistedTemplatesAccepted ==
    t_outcome = "ok" =>
        /\ IsWhitelistedConcat(dirTemplate)
        /\ "%" \notin Atoms(concat_command)

\* The rows a path is built for: each of the five attributes holds a value
\* or the empty string.
TemplateRows ==
    [PatientID : {<<"p1">>, <<>>}, collection_id : {<<"c1">>, <<>>}, Modality : {<<"CT">>, <<>>},
     StudyInstanceUID : {<<"st1">>, <<>>}, SeriesInstanceUID : {<<"se1">>, <<>>}]

\* the row whose attributes all hold a value
FullRow ==
    [PatientID |-> <<"p1">>, collection_id |-> <<"c1">>, Modality |-> <<"CT">>,
     StudyInstanceUID |-> <<"st1">>, SeriesInstanceUID |-> <<"se1">>]

\* the path the query gives a row: the value of the expression returned
PathOf(row) == EvalConcat(concat_command, 1, FALSE, row)

Separators == {valid_separators[i][1] : i \in 1..Len(valid_separators)}

\* the part of a path below the download directory
Below(path) == SubSeq(path, Len(downloadDir) + 2, Len(path))

\* no two adjacent separators and no separator at the end
NoStraySeparator(s) ==
    /\ \A i \in 1..(Len(s) - 1) : ~(s[i] \in Separators /\ s[i + 1] \in Separators)
    /\ (s # <<>> => s[Len(s)] \notin Separators)

\* the template with every token replaced by the row's value, left to right
RECURSIVE Substituted(_, _)
Substituted(t, row) ==
    IF t = <<>> THEN <<>>
    ELSE IF \E i \in 1..Len(valid_attributes) : StartsWith(t, <<"%">> \o valid_attributes[i])
    THEN LET i == CHOOSE j \in 1..Len(valid_attributes) : StartsWith(t, <<"%">> \o valid_attributes[j])
         IN  ColumnValue(row, valid_attributes[i])
             \o Substituted(SubSeq(t, Len(valid_attributes[i]) + 2, Len(t)), row)
    ELSE <<t[1]>> \o Substituted(Tail(t), row)

\* the expression holds no empty literal ''
NoEmptyLiteral(expr) == \A i \in 1..(Len(expr) - 1) : ~(expr[i] = "'" /\ expr[i + 1] = "'")

\* C12 as stated: for an accepted template whose path has no stray
\* separator when every attribute holds a value, the path of a row with
\* empty values has none either (the empty segment is elided).
C12_Original_EmptySegmentElided ==
    (t_outcome = "ok" /\ NoStraySeparator(Below(PathOf(FullRow)))) =>
        \A row \in TemplateRows : NoStraySeparator(Below(PathOf(row)))

\* C12 amended: what the resolver elides are the empty literals of the
\* expression. The path of a row is the download directory, a separator and
\* the template with every token replaced by the row's value: an empty
\* value contributes nothing and the separators around it stay.
C12_EmptyValueLeavesSeparators ==
    t_outcome = "ok" =>
        /\ NoEmptyLiteral(concat_command)
        /\ \A row \in TemplateRows :
              PathOf(row) = downloadDir \o <<"/">> \o Substituted(dirTemplate, row)

C12_Witness ==
    /\ t_outcome = "ok"
    /\ dirTemplate = <<"%", "Patient", "ID", "/", "%", "Mod", "ality">>
    /\ \E row \in TemplateRows :
         /\ row.PatientID = <<>>
         /\ PathOf(row) = <<"D", "/", "/", "CT">>

\* the table a download filters: sm_instance_index for a selection by
\* instance, both series indices for one by crdc_series_uuid, else the index
DownloadDf ==
    IF Truthy(d_sel.SOPInstanceUID) THEN sm_instance_index.df
    ELSE IF d_sel.crdc_series_uuid # None THEN index \cup previous_versions_index
    ELSE index

\* the size of the rows the most specific filter selects, in hundredths of a MB
SelectedSize ==
    LET selected == RowsMatching(DownloadDf, MostSpecific(d_sel), d_sel)
    IN  IF Truthy(d_sel.SOPInstanceUID)
        THEN SumColumn(selected, "instance_size") \div 10000
        ELSE SumColumn(selected, "series_size_MB")

C15_DryRunWritesAndRunsNothing ==
    (DownloadCalled /\ d_args.dry_run) =>
        /\ ~d_result.temp_manifest_file.created
        /\ d_result.temp_manifest_file.commands = <<>>
        /\ d_outcome # "s5cmd_run"
        /\ (d_outcome = "returned" => d_result.total_size = SelectedSize)

C15_Witness ==
    /\ DownloadCalled
    /\ d_args.dry_run
    /\ d_args.disk_free_space_MB = EnoughSpace
    /\ d_args.use_s5cmd_sync
    /\ d_outcome = "returned"
    /\ d_result.reason = "dry run"
    /\ d_result.total_size > 0

----------------------------------------------------------------------------
\* Vocabulary of the claims about _s5cmd_run

\* every file of the plan lies at its destination
Complete(files) ==
    \A i \in 1..(NumPlanSeries * FilesPerSeries) :
        PlanFiles(NumPlanSeries, r_args.layout)[i] \in files

\* a process that transfers files was started
TransferLaunched == process.state # "none"

RunErrors == {"download process failed with errors", "non-zero exit code"}

\* C16: a sync-mode run against a destination that already holds every
\* file of the plan ends at once: the dry run prints nothing, no reduced
\* file of commands is written, no transferring process is started, no
\* file is written to the destination, and the call reports that all
\* requested files are already present, without any error.
C16_CompleteDestinationSkipsTransfer ==
    [][(r_pc = "call" /\ r_args.use_s5cmd_sync /\ Complete(disk)) =>
          /\ DryRunLines(temp_files.manifest_file.lines, disk) = <<>>
          /\ r_pc' = "done"
          /\ process' = NoProcess
          /\ disk' = disk
          /\ ~temp_files'.synced_manifest.created
          /\ "all requested files are already present" \in r_log'
          /\ r_log' \cap RunErrors = {}]_vars

C16_Witness ==
    /\ r_pc = "done"
    /\ r_args.use_s5cmd_sync
    /\ Complete(disk)
    /\ ~TransferLaunched
    /\ "all requested files are already present" \in r_log

\* C17 as stated: once the call has returned, every temporary file it
\* created (the file of commands, the reduced one, the stderr log) is
\* deleted.
C17_Original_TempFilesDeleted ==
    r_pc = "done" =>
        /\ ~temp_files.manifest_file.exists
        /\ ~temp_files.synced_manifest.exists
        /\ ~temp_files.stderr_log_file.exists

\* C18 as stated: after every transfer, on the full file of commands or
\* on the reduced one, a non-zero exit code is logged as an error and the
\* lines of stderr that start with ERROR are reported.
C18_Original_ExitCodeInspected ==
    (r_pc = "done" /\ process.state = "exited" /\ process.returncode # 0) =>
        "non-zero exit code" \in r_log

\* C19: at every pass of the tracking loop the value given to the progress
\* bar is at most the estimated size of the plan in bytes, and at most the
\* size handed to the tracking, whatever the bytes on disk are.
C19_ProgressCappedAtEstimate ==
    track.polled =>
        /\ track.pbar_n <= BytesOfSize(r_args.total_size)
        /\ track.pbar_n <= BytesOfSize(track.size_MB)

\* the bytes on disk exceed the estimate and the bar shows the estimate
C19_Witness ==
    /\ track.polled
    /\ SumDirSizes(disk, track.list_of_directories) - track.initial_size_bytes
          > BytesOfSize(r_args.total_size)
    /\ track.pbar_n = BytesOfSize(r_args.total_size)

----------------------------------------------------------------------------
\* Vocabulary of the claims about IDCClient.client()

CallsOf(op) == {i \in 1..Len(calls) : calls[i].op = op}

\* C20: after any sequence of client() calls and IDCClient() constructions,
\* every client() call has returned one and the same instance, and every
\* construction has returned an instance that no other call returned:
\* neither a client() call nor another construction.
C20_SingletonAndFreshInstances ==
    /\ \A i \in 1..Len(calls) : calls[i].returned # NoClient
    /\ \A i, j \in CallsOf("client") : calls[i].returned = calls[j].returned
    /\ \A i \in CallsOf("IDCClient") :
          \A j \in 1..Len(calls) : j # i => calls[j].returned # calls[i].returned

\* constructions before, between and after two client() calls
C20_Witness ==
    \E a, b, c, d, f \in 1..Len(calls) :
        /\ a < b /\ b < c /\ c < d /\ d < f
        /\ calls[a].op = "IDCClient"
        /\ calls[b].op = "client"
        /\ calls[c].op = "IDCClient"
        /\ calls[d].op = "client"
        /\ calls[f].op = "IDCClient"
        /\ calls[b].returned = calls[d].returned

----------------------------------------------------------------------------
\* Vocabulary of the claims about fetch_index

\* the last call asked for a known index that the client had not installed,
\* and the download succeeded
FetchSucceeded(call) ==
    /\ call.index \in KnownNames
    /\ ~call.was_installed
    /\ call.response.kind = "response"
    /\ call.response.status_code = 200

\* C21 as stated: fetch_index on a known index that is not installed and
\* whose download succeeds marks it installed and makes its table an
\* attribute; every other call (unknown name, index already installed,
\* failed download) leaves the flags and the tables as they were and does
\* not raise.
C21_Original_FetchInstallsOrLeavesUnchanged ==
    [][IF FetchSucceeded(f_last')
       THEN /\ indices_overview'[f_last'.client][f_last'.index].installed
            /\ HasAttr(cls_tables', f_last'.index)
       ELSE /\ indices_overview' = indices_overview
            /\ cls_tables' = cls_tables
            /\ f_last'.outcome = "returned"]_vars

\* C24 as stated: for every client and every auxiliary index, the table is
\* an attribute of the client if and only if the client's indices_overview
\* marks the index installed.
C24_Original_AccessibleIffInstalled ==
    \A c \in Clients, n \in AuxNames :
        HasAttr(cls_tables, n) <=> indices_overview[c][n].installed

----------------------------------------------------------------------------
\* Vocabulary of the claims about a download by crdc_series_uuid

RequestedUuids == d_sel.crdc_series_uuid.vals

\* the call selects by crdc_series_uuid values that all occur in the
\* current index or in the prior versions, and nothing else stops it
DownloadByKnownUuid ==
    /\ DownloadCalled
    /\ WellTyped(d_sel)
    /\ RequestedUuids # {}
    /\ \A u \in RequestedUuids :
          \E r \in index \cup previous_versions_index : r.crdc_series_uuid = u
    /\ ~d_args.dry_run
    /\ d_args.disk_free_space_MB = EnoughSpace
    /\ Hierarchy_Of(d_args.dirTemplate).kind = "ok"

\* C22 as stated: a download by crdc_series_uuid, the UUIDs being in the
\* current index or only in the prior versions, writes a non-empty file of
\* commands, the source of every command holds one of the requested UUIDs,
\* and the size is the sum over the requested series.
C22_Original_UuidDownloadCopiesRequestedSeries ==
    DownloadByKnownUuid =>
        /\ d_outcome = "s5cmd_run"
        /\ d_result.temp_manifest_file.commands # <<>>
        /\ \A i \in 1..Len(d_result.temp_manifest_file.commands) :
              RegexpExtractUuid(d_result.temp_manifest_file.commands[i]) \in RequestedUuids
        /\ d_result.total_size =
              SumColumn({r \in index \cup previous_versions_index :
                            r.crdc_series_uuid \in RequestedUuids}, "series_size_MB")

----------------------------------------------------------------------------
\* Vocabulary of the claims about the data frames of the client

\* C23: whatever operations run, no column of self.index or of
\* self.previous_versions_index is ever assigned: every assignment of an
\* operation goes to an object the operation created, also when one of its
\* local names is bound to the index itself.
C23_IndexesNeverWritten ==
    /\ written[IndexObj] = {}
    /\ written[PriorObj] = {}
    /\ \A o \in Objects : written[o] # {} => o >= FirstFresh /\ o < q_next

\* after an earlier operation, a download whose download_df is the index
\* itself has assigned a column of its result
C23_Witness ==
    /\ q_done >= 1
    /\ q_pc.name = "download_from_selection"
    /\ q_env["download_df"] = IndexObj
    /\ q_env["result_df"] >= FirstFresh
    /\ written[q_env["result_df"]] = {"s5cmd_cmd"}

----------------------------------------------------------------------------
\* The dry run and the reduced plan

\* the series of the plan of which a file is missing under its destination
PendingSeries(files, layout) ==
    {k \in 1..NumPlanSeries :
        \E j \in 1..FilesPerSeries :
            File(PlanPath(k, layout), RemoteNames(Id("uuid", k))[j]) \notin files}

\* the step of _s5cmd_run on which a dry run that printed something is parsed
ProbeParsed ==
    /\ r_pc = "call"
    /\ r_pc' = "tracking"
    /\ process'.manifest = "synced_manifest"

\* C26: after a dry run that printed something, the commands of the new file
\* are exactly the commands of the plan for the series the dry run names as
\* pending, each once; the directories handed to the tracking are the
\* destinations of those commands; the size handed to it is the sum of the
\* sizes of those series and is at most the total of the plan
C26_ReducedPlanIsPendingSeries ==
    [][ProbeParsed =>
        LET pending == PendingSeries(disk, r_args.layout)
            plan == temp_files.manifest_file.lines
            lines == temp_files'.synced_manifest.lines
            dirs == track'.list_of_directories
        IN  /\ {lines[i] : i \in 1..Len(lines)}
                 = {r_args.s5cmd_sync_helper_df[k].s5cmd_cmd : k \in pending}
            /\ {lines[i] : i \in 1..Len(lines)} \subseteq {plan[k] : k \in 1..Len(plan)}
            /\ Len(lines) = Cardinality(pending)
            /\ Len(dirs) = Len(lines)
            /\ \A i \in 1..Len(lines) : dirs[i] = QuotedPart(lines[i])
            /\ track'.size_MB = PlanSeriesSize * Cardinality(pending)
            /\ track'.size_MB <= r_args.total_size]_vars

\* a dry run over a plan of several series has named one of them only
C26_Witness ==
    /\ r_pc = "tracking"
    /\ process.manifest = "synced_manifest"
    /\ r_args.layout = "tree"
    /\ Len(temp_files.synced_manifest.lines) = 1
    /\ Len(temp_files.manifest_file.lines) = NumPlanSeries
    /\ track.size_MB = PlanSeriesSize
    /\ track.size_MB < r_args.total_size

\* C27: the baseline of the tracking is the sum of the bytes that lay in all
\* the watched directories before the transfer, so a pass of the loop made
\* while s5cmd has written nothing yet reports 0
C27_Original_BaselineIsSumOverDirectories ==
    (r_pc = "tracking" /\ r_args.show_progress_bar /\ process.copied = 0)
        => /\ track.initial_size_bytes = SumDirSizes(disk, track.list_of_directories)
           /\ track.polled => track.pbar_n = 0

\* C30: while s5cmd runs the loop goes on; once s5cmd has ended the next
\* pass of the loop is the last, it is taken, and _s5cmd_run returns, with
\* and without the progress bar
C30_LoopEndsWithTheProcess ==
    /\ [][(r_pc = "tracking" /\ process.state = "running") => r_pc' = "tracking"]_vars
    /\ [][(r_pc = "tracking" /\ process.state = "exited") => r_pc' = "done"]_vars
    /\ \A bar \in BOOLEAN :
          (r_pc = "tracking" /\ process.state = "exited" /\ r_args.show_progress_bar = bar)
              ~> (r_pc = "done" /\ r_args.show_progress_bar = bar)

\* the loop has been left after passes made while s5cmd was running
C30_Witness ==
    /\ r_pc = "done"
    /\ process.state = "exited"
    /\ process.copied >= 1
    /\ track.polled
    /\ track.pbar_n > 0

----------------------------------------------------------------------------
\* Whole calls: the dry run and the errors

\* use_s5cmd_sync as the caller gave it
SyncRequested == IF manifest_df = <<>> THEN d_args.use_s5cmd_sync ELSE m_args.use_s5cmd_sync

\* the selection names instances
InstanceLevel == Truthy(d_sel.SOPInstanceUID)

\* _s5cmd_run has made the dry run: it logs what the dry run printed
ProbeRan(log) ==
    log \cap {"dry run output is not empty", "all requested files are already present"} # {}

\* the step on which _s5cmd_run decides between the dry run and the transfer
RunDecides == r_pc = "call" /\ r_pc' # "call"

\* C25: in a call the dry run is made exactly when sync was asked for, the
\* selection is not by instance and downloadDir is not empty; then every
\* command of the file is a sync, otherwise every command is a cp and s5cmd
\* is started on the whole file; a selection by instance never has a dry run
C25_DryRunIffSyncAndNotEmpty ==
    [][RunDecides =>
        LET lines == temp_files.manifest_file.lines
            probe == ProbeRan(r_log')
        IN  /\ probe <=> (SyncRequested /\ ~InstanceLevel /\ disk # {})
            /\ probe => \A i \in 1..Len(lines) : lines[i][1] = "sync"
            /\ ~probe => /\ \A i \in 1..Len(lines) : lines[i][1] = "cp"
                         /\ process'.state = "running"
                         /\ process'.manifest = "manifest_file"
                         /\ process'.todo = AllPlanFiles(lines)
            /\ InstanceLevel => ~probe]_vars

\* a dry run was made over a file of sync commands
C25_Witness ==
    /\ d_outcome = "s5cmd_run"
    /\ d_args.use_s5cmd_sync
    /\ ProbeRan(r_log)
    /\ temp_files.manifest_file.lines # <<>>
    /\ temp_files.manifest_file.lines[1][1] = "sync"
    /\ disk # {}

\* the outcomes of a plan that are an exception
PlanErrors == {"ValueError", "TypeError"}

----------------------------------------------------------------------------
\* The sum of the sizes while the directory changes

RECURSIVE SumSeq(_)
SumSeq(q) == IF q = <<>> THEN 0 ELSE Head(q) + SumSeq(Tail(q))

\* C28: while s5cmd creates, renames and removes files and directories in a
\* watched directory, _get_dir_sum_file_size raises nothing: an entry that
\* was listed and is gone when it is looked at adds 0 to the sum, and the
\* sum is that of what was added
C28_SumToleratesChanges ==
    /\ sum_call.pc # "raised"
    /\ sum_call.raised = ""
    /\ \A i \in sum_call.gone : i <= Len(sum_call.added) /\ sum_call.added[i] = 0
    /\ sum_call.sum_file_size = SumSeq(sum_call.added)

\* a file was removed after is_file() had found it and before stat(); the
\* call has returned
C28_Witness ==
    /\ sum_call.pc = "returned"
    /\ tool_steps >= 1
    /\ sum_call.caught >= 1
    /\ \E i \in sum_call.gone :
          /\ sum_call.added[i] = 0
          /\ entries[sum_call.listed[i]] = "absent"
    /\ sum_call.sum_file_size > 0

====
